---- MODULE Spec2Model ----
(***************************************************************************)
(* A model of the mocap-converter library: the immutable kinematic tree    *)
(* and its validation, the MotionData container, and the BVH loader and    *)
(* saver.  Python dicts keep insertion order, so a dict is modelled as a   *)
(* sequence of entries with distinct keys.  A node name is a sequence of   *)
(* string pieces, so that the loader's f"{parent}_EndSite" is a real       *)
(* concatenation; None is the empty sequence.                              *)
(***************************************************************************)
EXTENDS Integers, Sequences, FiniteSets, TLC

VARIABLES
    fnInput,    \* from_nodes: the node list handed to the constructor
    fnResult,   \* from_nodes: what the call produced (pending before it ran)
    trees,      \* the KinematicTree instances created so far (their nodes dicts)
    tlast,      \* the last tree operation: receiver, argument, outcome
    mds,        \* the MotionData instances created so far
    mlast,      \* the last MotionData call: receiver, arguments, outcome
    hp,         \* parse_hierarchy_section: its loop state, the blocks of the
                \* text read so far, and what it returned
    rt,         \* a text, what loading it gave, what saving that wrote and
                \* what loading the written text gave
    kin         \* rotations, the positions computed from them, the rotations
                \* inferred from the positions and the positions computed again

vars == <<fnInput, fnResult, trees, tlast, mds, mlast, hp, rt, kin>>

\* ------------------------------------------------------------------ bounds

MaxList == 3
MaxTrees == 3
MaxTreeList == 2
MaxFrames == 2
MaxMotions == 2
MaxDecls == 3
MaxRows == 2
MaxScale == 2
MaxChannels == 4

\* ------------------------------------------------------------------- names

None == <<>>

Names == {<<"a">>, <<"b">>, <<"c">>}

\* a parent reference may also name a node that is nowhere in the list
Missing == <<"zz">>

ParentRefs == Names \cup {None, Missing}

ZeroVec == <<0, 0, 0>>

\* -------------------------------------------------------------------- Node

Node(name, parent_name, offset) ==
    [name |-> name, parent_name |-> parent_name, offset |-> offset]

is_root(node) == node.parent_name = None

\* ------------------------------------------------- insertion-ordered dicts

DictKeys(d) == {d[i].name : i \in DOMAIN d}

DictHas(d, name) == \E i \in DOMAIN d : d[i].name = name

DictGet(d, name) == d[CHOOSE i \in DOMAIN d : d[i].name = name]

\* d[node.name] = node: a key already present keeps its place
DictSet(d, node) ==
    IF DictHas(d, node.name)
    THEN [i \in DOMAIN d |-> IF d[i].name = node.name THEN node ELSE d[i]]
    ELSE Append(d, node)

RECURSIVE DictFromList(_)
DictFromList(nodes) ==
    IF nodes = <<>> THEN <<>>
    ELSE DictSet(DictFromList(SubSeq(nodes, 1, Len(nodes) - 1)), nodes[Len(nodes)])

\* ------------------------------------------- KinematicTree: validation

\* the root count tested for zero only
RootCountZeroOnly(n) == IF n = 0 THEN "NoRootError" ELSE "ok"

RootCountError(n) ==
    IF n = 0 THEN "NoRootError"
    ELSE IF n > 1 THEN "NotConnectedError"
    ELSE "ok"

root_nodes(d) == SelectSeq(d, is_root)

RECURSIVE CheckPathNoCycleTest(_, _, _, _)
CheckPathNoCycleTest(d, node_name, path, visited) ==
    IF node_name \in visited THEN [err |-> "ok", visited |-> visited]
    ELSE LET v2 == visited \cup {node_name} IN
         IF ~DictHas(d, node_name)
         THEN [err |-> "NotConnectedError", visited |-> v2]
         ELSE LET node == DictGet(d, node_name) IN
              IF node.parent_name # None
              THEN IF ~DictHas(d, node.parent_name)
                   THEN [err |-> "NotConnectedError", visited |-> v2]
                   ELSE CheckPathNoCycleTest(d, node.parent_name,
                                             path \cup {node_name}, v2)
              ELSE [err |-> "ok", visited |-> v2]

RECURSIVE CheckPathWalk(_, _, _, _)
CheckPathWalk(d, node_name, path, visited) ==
    IF node_name \in path
    THEN [err |-> "CircularReferenceError", visited |-> visited]
    ELSE IF node_name \in visited THEN [err |-> "ok", visited |-> visited]
    ELSE LET v2 == visited \cup {node_name} IN
         IF ~DictHas(d, node_name)
         THEN [err |-> "NotConnectedError", visited |-> v2]
         ELSE LET node == DictGet(d, node_name) IN
              IF node.parent_name # None
              THEN IF ~DictHas(d, node.parent_name)
                   THEN [err |-> "NotConnectedError", visited |-> v2]
                   ELSE CheckPathWalk(d, node.parent_name,
                                      path \cup {node_name}, v2)
              ELSE [err |-> "ok", visited |-> v2]

check_path_to_root(d, node_name, path, visited) ==
    CheckPathWalk(d, node_name, path, visited)

\* the path set a walk starts with
WalkStartPathShared(visited) == visited

WalkStartPath(visited) == {}

\* the loop over self.nodes.values(), from entry i on
RECURSIVE ValidateFrom(_, _, _)
ValidateFrom(d, i, visited) ==
    IF i > Len(d) THEN "ok"
    ELSE IF d[i].name \in visited THEN ValidateFrom(d, i + 1, visited)
    ELSE LET r == check_path_to_root(d, d[i].name, WalkStartPath(visited), visited) IN
         IF r.err # "ok" THEN r.err ELSE ValidateFrom(d, i + 1, r.visited)

\* the walks first, the root count after them
ValidateWalkFirst(d) ==
    IF d = <<>> THEN "ok"
    ELSE LET w == ValidateFrom(d, 1, {}) IN
         IF w # "ok" THEN w ELSE RootCountError(Len(root_nodes(d)))

validate_tree_structure(d) ==
    IF d = <<>> THEN "ok"
    ELSE LET rc == RootCountError(Len(root_nodes(d))) IN
         IF rc # "ok" THEN rc ELSE ValidateFrom(d, 1, {})

\* KinematicTree(nodes=d): the error raised, or "ok" and the instance's dict
NewTree(d) ==
    LET e == validate_tree_structure(d) IN
    [err |-> e, nodes |-> IF e = "ok" THEN d ELSE <<>>]

from_nodes(nodes) == NewTree(DictFromList(nodes))

root(d) == IF root_nodes(d) # <<>> THEN root_nodes(d)[1] ELSE None

\* ------------------------------------------- KinematicTree: queries, edits

get_children(d, node_name) ==
    SelectSeq(d, LAMBDA node : node.parent_name = node_name)

SeqNames(s) == [i \in DOMAIN s |-> s[i].name]

SeqRange(s) == {s[i] : i \in DOMAIN s}

\* the breadth-first collection of the names to remove
RemoveCollectShallow(d, queue, nodes_to_remove) == nodes_to_remove

RECURSIVE RemoveCollect(_, _, _)
RemoveCollect(d, queue, nodes_to_remove) ==
    IF queue = <<>> THEN nodes_to_remove
    ELSE LET children == SeqNames(get_children(d, Head(queue))) IN
         RemoveCollect(d, Tail(queue) \o children,
                       nodes_to_remove \cup SeqRange(children))

remove_node(d, name) ==
    IF ~DictHas(d, name) THEN [err |-> "KeyError", nodes |-> <<>>]
    ELSE LET gone == RemoveCollect(d, <<name>>, {name}) IN
         NewTree(SelectSeq(d, LAMBDA node : node.name \notin gone))

add_node(d, node) == NewTree(DictSet(d, node))

\* an argument left at its default None
NoArg == [given |-> FALSE, val |-> <<>>]

Given(v) == [given |-> TRUE, val |-> v]

copy_with(d, nodes) == NewTree(IF nodes.given THEN nodes.val ELSE d)

\* The instances after a call on receiver r that built the dict `made`: the
\* constructor copies the dict it is given, so the new instance is a new entry.
StoreAliased(ts, r, made) == Append([ts EXCEPT ![r] = made], made)

StoreNew(ts, r, made) == Append(ts, made)

\* -------------------------------------------------------------- MotionData

\* An ndarray is modelled by its shape, its writeable flag and its rows; a
\* mapping from node names to arrays is a sequence of entries with distinct
\* names.  A float is a whole number of millionths (Micro to the unit).
ZeroRow(n) == [j \in 1..n |-> 0]

\* np.zeros(shape)
Arr(shape) ==
    [shape |-> shape, writeable |-> TRUE,
     data |-> IF Len(shape) = 2 THEN [i \in 1..shape[1] |-> ZeroRow(shape[2])]
              ELSE ZeroRow(shape[1])]

\* the 2-D array holding the given rows, each of cols values
ArrOf(data, cols) == [shape |-> <<Len(data), cols>>, writeable |-> TRUE, data |-> data]

Entry(name, arr) == [name |-> name, arr |-> arr]

\* 1/30 s, in microseconds
FrameTimeDefault == 33333

freeze_array(a, shape_second) ==
    IF Len(a.shape) # 2 \/ a.shape[2] # shape_second
    THEN [err |-> "ValueError", val |-> a]
    ELSE [err |-> "ok", val |-> [a EXCEPT !.writeable = FALSE]]

freeze_mapping(data, shape_second) ==
    IF \E i \in DOMAIN data : freeze_array(data[i].arr, shape_second).err # "ok"
    THEN [err |-> "ValueError", val |-> <<>>]
    ELSE [err |-> "ok",
          val |-> [i \in DOMAIN data |->
                      Entry(data[i].name, freeze_array(data[i].arr, shape_second).val)]]

\* data is an optional argument: None and the empty mapping both give {}
validate_mapping_nodes(tree, data) ==
    IF ~data.given \/ data.val = <<>> THEN [err |-> "ok", val |-> <<>>]
    ELSE IF \E i \in DOMAIN data.val : ~DictHas(tree, data.val[i].name)
    THEN [err |-> "KeyError", val |-> <<>>]
    ELSE [err |-> "ok", val |-> data.val]

FrameMismatch(map, frame_count) ==
    \E i \in DOMAIN map : map[i].arr.shape[1] # frame_count

infer_and_validate_frame_count(pos_map, rot_map) ==
    LET fc1 == IF Len(pos_map) > 0 THEN pos_map[1].arr.shape[1] ELSE 0
        fc2 == IF Len(rot_map) > 0 /\ fc1 = 0
               THEN rot_map[1].arr.shape[1] ELSE fc1
    IN  IF Len(pos_map) > 0 /\ FrameMismatch(pos_map, fc1)
        THEN [err |-> "ValueError", val |-> 0]
        ELSE IF Len(rot_map) > 0 /\ FrameMismatch(rot_map, fc2)
        THEN [err |-> "ValueError", val |-> 0]
        ELSE [err |-> "ok", val |-> fc2]

NoMD == [kinematic_tree |-> <<>>, frame_time |-> 0, positions |-> <<>>,
         rotations |-> <<>>, frame_count |-> 0]

Raised(e) == [err |-> e, self |-> FALSE, md |-> NoMD]

\* MotionData.__init__
NewMotionData(kinematic_tree, positions, rotations, frame_time) ==
    LET vp == validate_mapping_nodes(kinematic_tree, positions)
        vr == validate_mapping_nodes(kinematic_tree, rotations)
        pm == freeze_mapping(vp.val, 3)
        rm == freeze_mapping(vr.val, 4)
        fc == infer_and_validate_frame_count(pm.val, rm.val)
    IN  IF vp.err # "ok" THEN Raised(vp.err)
        ELSE IF vr.err # "ok" THEN Raised(vr.err)
        ELSE IF pm.err # "ok" THEN Raised(pm.err)
        ELSE IF rm.err # "ok" THEN Raised(rm.err)
        ELSE IF fc.err # "ok" THEN Raised(fc.err)
        ELSE [err |-> "ok", self |-> FALSE,
              md |-> [kinematic_tree |-> kinematic_tree,
                      frame_time |-> IF frame_time.given THEN frame_time.val
                                     ELSE FrameTimeDefault,
                      positions |-> pm.val, rotations |-> rm.val,
                      frame_count |-> fc.val]]

\* MotionData.copy_with; `self` in the result says that the receiver itself
\* is what the call returned
md_copy_with(md, positions, rotations, frame_time) ==
    IF ~positions.given /\ ~rotations.given /\ ~frame_time.given
    THEN [err |-> "ok", self |-> TRUE, md |-> md]
    ELSE
    LET vp == validate_mapping_nodes(md.kinematic_tree, positions)
        pm == IF ~positions.given THEN [err |-> "ok", val |-> md.positions]
              ELSE freeze_mapping(vp.val, 3)
        vr == validate_mapping_nodes(md.kinematic_tree, rotations)
        rm == IF ~rotations.given THEN [err |-> "ok", val |-> md.rotations]
              ELSE freeze_mapping(vr.val, 4)
        fc == infer_and_validate_frame_count(pm.val, rm.val)
    IN  IF positions.given /\ vp.err # "ok" THEN Raised(vp.err)
        ELSE IF pm.err # "ok" THEN Raised(pm.err)
        ELSE IF rotations.given /\ vr.err # "ok" THEN Raised(vr.err)
        ELSE IF rm.err # "ok" THEN Raised(rm.err)
        ELSE IF fc.err # "ok" THEN Raised(fc.err)
        ELSE NewMotionData(md.kinematic_tree, Given(pm.val), Given(rm.val),
                           Given(IF frame_time.given THEN frame_time.val
                                 ELSE md.frame_time))

\* copy_with that writes the new state into the receiver as well
StoreMotionInPlace(ms, r, made) == Append([ms EXCEPT ![r] = made], made)

\* the instance copy_with constructs is a fresh object
StoreMotion(ms, r, made) == Append(ms, made)

MotionIdle == [op |-> "none", recv |-> 0, before |-> NoMD, given |-> FALSE,
               err |-> "ok", ret |-> 0]

NoHierarchy == [err |-> "pending", kinematic_tree |-> <<>>, node_channels |-> <<>>]

HierIdle == [phase |-> "idle", st |-> <<>>, decls |-> <<>>, open |-> <<>>,
             result |-> NoHierarchy]

NotRun == [err |-> "pending", self |-> FALSE, md |-> NoMD]

NotSaved == [err |-> "pending", lines |-> <<>>]

KinIdle == [phase |-> "idle", tree |-> <<>>, rotations |-> <<>>, root_position |-> <<>>,
            scale |-> 1, first |-> <<>>, inferred |-> <<>>, second |-> <<>>,
            start |-> <<>>, accum |-> <<>>]

RoundTripIdle == [phase |-> "idle", text |-> <<>>, first |-> NotRun, layouts |-> <<>>,
                  saved |-> NotSaved, second |-> NotRun]

\* --------------------------------------------------------- from_nodes runs

NodeChoices == {Node(n, p, ZeroVec) : n \in Names, p \in ParentRefs}

RECURSIVE SeqsUpTo(_, _)
SeqsUpTo(S, n) ==
    IF n = 0 THEN {<<>>}
    ELSE LET shorter == SeqsUpTo(S, n - 1) IN
         shorter \cup {Append(s, x) : s \in {t \in shorter : Len(t) = n - 1}, x \in S}

Pending == [err |-> "pending", nodes |-> <<>>]

TreeIdle == [op |-> "none", recv |-> 0, before |-> <<>>, arg |-> NoArg,
             err |-> "ok", ret |-> 0]

InitFN ==
    /\ fnInput \in SeqsUpTo(NodeChoices, MaxList)
    /\ fnResult = Pending
    /\ trees = <<>>
    /\ tlast = TreeIdle
    /\ mds = <<>>
    /\ mlast = MotionIdle
    /\ hp = HierIdle
    /\ rt = RoundTripIdle
    /\ kin = KinIdle

Construct ==
    /\ fnResult = Pending
    /\ fnResult' = from_nodes(fnInput)
    /\ UNCHANGED <<fnInput, trees, tlast, mds, mlast, hp, rt, kin>>

NextFN == Construct

SpecFromNodes == InitFN /\ [][NextFN]_vars

\* ------------------------------------------- what a node list looks like

FnDone == fnResult.err # "pending"

NullParents(nodes) == {i \in DOMAIN nodes : nodes[i].parent_name = None}

DistinctNames(nodes) ==
    \A i, j \in DOMAIN nodes : i # j => nodes[i].name # nodes[j].name

ParentsPresent(nodes) ==
    \A i \in DOMAIN nodes :
        nodes[i].parent_name = None
        \/ \E j \in DOMAIN nodes : nodes[j].name = nodes[i].parent_name

\* the entries a parent reference of entry i may mean
ParentEntries(nodes, i) ==
    {j \in DOMAIN nodes :
        nodes[i].parent_name # None /\ nodes[j].name = nodes[i].parent_name}

RECURSIVE Ancestors(_, _, _)
Ancestors(nodes, S, k) ==
    IF k = 0 THEN {}
    ELSE LET up == UNION {ParentEntries(nodes, i) : i \in S} IN
         up \cup Ancestors(nodes, up, k - 1)

HasCycle(nodes) ==
    \E i \in DOMAIN nodes : i \in Ancestors(nodes, {i}, Len(nodes))

\* C3: a list with exactly one null-parent node, every other parent present
\* and no parent cycle is accepted, and the tree's root is that node.
C3_ValidListAccepted ==
    (FnDone /\ Cardinality(NullParents(fnInput)) = 1
        /\ ParentsPresent(fnInput) /\ ~HasCycle(fnInput))
    => /\ fnResult.err = "ok"
       /\ root(fnResult.nodes) = fnInput[CHOOSE i \in NullParents(fnInput) : TRUE]

\* a chain given leaf first: the walk from the leaf climbs two parents
C3_Witness ==
    /\ FnDone /\ fnResult.err = "ok"
    /\ Len(fnInput) = 3 /\ DistinctNames(fnInput)
    /\ fnInput[1].parent_name = fnInput[2].name
    /\ fnInput[2].parent_name = fnInput[3].name
    /\ fnInput[3].parent_name = None

\* C4 as stated: zero null-parent nodes give NoRootError, two or more give
\* NotConnectedError.
C4_Original ==
    FnDone =>
        /\ Cardinality(NullParents(fnInput)) = 0 => fnResult.err = "NoRootError"
        /\ Cardinality(NullParents(fnInput)) >= 2 => fnResult.err = "NotConnectedError"

\* C4 amended: the same for every non-empty list with pairwise distinct
\* names (the empty list gives the empty tree, and of two entries with one
\* name only the later one counts).
C4_RootCountRejected ==
    (FnDone /\ fnInput # <<>> /\ DistinctNames(fnInput)) =>
        /\ Cardinality(NullParents(fnInput)) = 0 => fnResult.err = "NoRootError"
        /\ Cardinality(NullParents(fnInput)) >= 2 => fnResult.err = "NotConnectedError"

C4_Witness ==
    /\ FnDone /\ DistinctNames(fnInput) /\ Len(fnInput) = 3
    /\ Cardinality(NullParents(fnInput)) = 2
    /\ fnResult.err = "NotConnectedError" /\ fnResult.nodes = <<>>

\* C5 as stated: a list with a parent cycle is rejected with
\* CircularReferenceError.
C5_Original ==
    (FnDone /\ HasCycle(fnInput)) => fnResult.err = "CircularReferenceError"

\* C5 amended: a list with pairwise distinct names and a parent cycle is
\* always rejected: with NoRootError when no node has a null parent, with
\* NotConnectedError when several have, and with exactly one null-parent
\* node with CircularReferenceError, or NotConnectedError when some parent
\* is missing from the list.
C5_CycleRejected ==
    (FnDone /\ DistinctNames(fnInput) /\ HasCycle(fnInput)) =>
        LET n == Cardinality(NullParents(fnInput)) IN
        /\ fnResult.err # "ok" /\ fnResult.nodes = <<>>
        /\ n = 0 => fnResult.err = "NoRootError"
        /\ n >= 2 => fnResult.err = "NotConnectedError"
        /\ n = 1 => fnResult.err \in {"CircularReferenceError", "NotConnectedError"}
        /\ (n = 1 /\ ParentsPresent(fnInput)) => fnResult.err = "CircularReferenceError"

\* a root and a two-node cycle beside it
C5_Witness ==
    /\ FnDone /\ DistinctNames(fnInput) /\ HasCycle(fnInput)
    /\ Cardinality(NullParents(fnInput)) = 1 /\ Len(fnInput) = 3
    /\ ~ \E i \in DOMAIN fnInput : fnInput[i].parent_name = fnInput[i].name
    /\ fnResult.err = "CircularReferenceError"

\* ------------------------------------------------------ tree operations

OneVec == <<1, 0, 0>>

\* the nodes handed to add_node: fresh ones, replacements (of the parent, of
\* the offset), a second root, a missing parent, cycles
TreeNodeChoices ==
    {Node(<<"a">>, None, ZeroVec), Node(<<"a">>, None, OneVec),
     Node(<<"b">>, <<"a">>, ZeroVec), Node(<<"b">>, None, ZeroVec),
     Node(<<"b">>, <<"c">>, ZeroVec), Node(<<"c">>, <<"b">>, ZeroVec),
     Node(<<"c">>, <<"a">>, ZeroVec), Node(<<"c">>, <<"c">>, ZeroVec),
     Node(<<"c">>, Missing, ZeroVec)}

\* the node lists handed to from_nodes in a run of tree operations
ListChoices ==
    SeqsUpTo({Node(<<"a">>, None, ZeroVec), Node(<<"b">>, <<"a">>, ZeroVec),
              Node(<<"b">>, None, ZeroVec), Node(<<"c">>, <<"b">>, ZeroVec)},
             MaxTreeList)

\* dicts a caller may hand to copy_with: keyed by their nodes' names
DictChoices == {DictFromList(l) : l \in ListChoices}

InitTree ==
    /\ fnInput = <<>>
    /\ fnResult = Pending
    /\ trees = <<>>
    /\ tlast = TreeIdle
    /\ mds = <<>>
    /\ mlast = MotionIdle
    /\ hp = HierIdle
    /\ rt = RoundTripIdle
    /\ kin = KinIdle

\* the outcome of a call on receiver r (0: a constructor call) that ended with `made`
TreeCall(op, r, arg, made) ==
    /\ trees' = IF made.err # "ok" THEN trees
                ELSE IF r = 0 THEN Append(trees, made.nodes)
                ELSE StoreNew(trees, r, made.nodes)
    /\ tlast' = [op |-> op, recv |-> r,
                 before |-> IF r = 0 THEN <<>> ELSE trees[r],
                 \* of a call that raised, only remove_node's argument is kept
                 arg |-> IF made.err = "ok" \/ op = "remove_node" THEN arg ELSE NoArg,
                 err |-> made.err,
                 ret |-> IF made.err = "ok" THEN Len(trees) + 1 ELSE 0]
    /\ UNCHANGED <<fnInput, fnResult, mds, mlast, hp, rt, kin>>

TNew ==
    /\ Len(trees) < MaxTrees
    /\ TreeCall("new", 0, NoArg, NewTree(<<>>))

TFromNodes ==
    /\ Len(trees) < MaxTrees
    /\ \E l \in ListChoices :
           TreeCall("from_nodes", 0, l, from_nodes(l))

TAddNode ==
    /\ Len(trees) < MaxTrees
    /\ \E r \in DOMAIN trees, node \in TreeNodeChoices :
           TreeCall("add_node", r, node, add_node(trees[r], node))

TRemoveNode ==
    /\ Len(trees) < MaxTrees
    /\ \E r \in DOMAIN trees, name \in Names \cup {Missing} :
           TreeCall("remove_node", r, name, remove_node(trees[r], name))

TCopyWith ==
    /\ Len(trees) < MaxTrees
    /\ \E r \in DOMAIN trees, nodes \in {Given(d) : d \in DictChoices} \cup {NoArg} :
           TreeCall("copy_with", r, nodes, copy_with(trees[r], nodes))

NextTree == TNew \/ TFromNodes \/ TAddNode \/ TRemoveNode \/ TCopyWith

SpecTree == InitTree /\ [][NextTree]_vars

\* ------------------------------------------- the tree's structural invariant

RECURSIVE WalkReachesRoot(_, _, _)
WalkReachesRoot(d, name, seen) ==
    /\ name \notin seen
    /\ DictHas(d, name)
    /\ \/ DictGet(d, name).parent_name = None
       \/ WalkReachesRoot(d, DictGet(d, name).parent_name, seen \cup {name})

StructInv(d) ==
    /\ Cardinality({i \in DOMAIN d : d[i].parent_name = None}) = 1
    /\ \A i \in DOMAIN d :
          d[i].parent_name # None =>
              /\ DictHas(d, d[i].parent_name)
              /\ WalkReachesRoot(d, d[i].name, {})

\* C2 as stated: every instance has exactly one root and every other node
\* reaches it through parent links.
C2_Original == \A i \in DOMAIN trees : StructInv(trees[i])

\* C2 amended: every instance is the empty tree or has exactly one root that
\* every other node reaches through parent links without repeating a name.
C2_TreesValid == \A i \in DOMAIN trees : trees[i] = <<>> \/ StructInv(trees[i])

\* add_node replaced a node of a three-node tree by a different one
C2_Witness ==
    /\ tlast.op = "add_node" /\ tlast.err = "ok"
    /\ Len(tlast.before) = 3
    /\ DictHas(tlast.before, tlast.arg.name)
    /\ DictGet(tlast.before, tlast.arg.name) # tlast.arg
    /\ DictGet(trees[tlast.ret], tlast.arg.name) = tlast.arg

\* the names whose parent chain in d passes through `name`
RECURSIVE ChainHits(_, _, _, _)
ChainHits(d, n, name, k) ==
    /\ k > 0
    /\ DictHas(d, n)
    /\ LET p == DictGet(d, n).parent_name IN
       p # None /\ (p = name \/ ChainHits(d, p, name, k - 1))

Descendants(d, name) == {n \in DictKeys(d) : ChainHits(d, n, name, Len(d))}

\* C6: remove_node(name) returns a new tree holding exactly the nodes that
\* are neither name nor a descendant of it and leaves the receiver as it
\* was; a name not in the tree raises KeyError.
C6_RemoveNode ==
    tlast.op = "remove_node" =>
        /\ trees[tlast.recv] = tlast.before
        /\ IF tlast.arg \in DictKeys(tlast.before)
           THEN /\ tlast.err = "ok"
                /\ tlast.ret = Len(trees) /\ tlast.ret # tlast.recv
                /\ SeqRange(trees[tlast.ret]) =
                      {node \in SeqRange(tlast.before) :
                          node.name \notin {tlast.arg} \cup Descendants(tlast.before, tlast.arg)}
           ELSE tlast.err = "KeyError" /\ tlast.ret = 0

\* the root of a chain of three is removed, and its grandchild with it
C6_Witness ==
    /\ tlast.op = "remove_node" /\ tlast.err = "ok"
    /\ Len(tlast.before) = 3
    /\ DictGet(tlast.before, tlast.arg).parent_name = None
    /\ \E n \in DictKeys(tlast.before) :
          DictGet(tlast.before, n).parent_name \notin {None, tlast.arg}
    /\ trees[tlast.ret] = <<>>

MapOf(d) == [n \in DictKeys(d) |-> DictGet(d, n)]

\* C7: a call of add_node leaves every existing instance's node map as it
\* was, whether it succeeds or raises, and a successful call returns a new
\* instance whose map is the receiver's plus node.name -> node; the empty
\* tree it may start from has root None.
C7_AddNodeFrame ==
    [][tlast'.op = "add_node" =>
        /\ \A i \in DOMAIN trees : trees'[i] = trees[i]
        /\ trees[tlast'.recv] = <<>> => root(trees[tlast'.recv]) = None
        /\ IF tlast'.err = "ok"
           THEN /\ tlast'.ret = Len(trees) + 1
                /\ Len(trees') = Len(trees) + 1
                /\ MapOf(trees'[tlast'.ret]) =
                      [n \in DictKeys(trees[tlast'.recv]) \cup {tlast'.arg.name} |->
                          IF n = tlast'.arg.name THEN tlast'.arg
                          ELSE DictGet(trees[tlast'.recv], n)]
           ELSE trees' = trees]_vars

\* a chain of add_node calls from the empty tree
C7_Witness ==
    /\ tlast.op = "add_node" /\ tlast.err = "ok"
    /\ Len(trees) = 3 /\ tlast.recv = 2 /\ tlast.ret = 3
    /\ trees[1] = <<>> /\ Len(trees[2]) = 1 /\ Len(trees[3]) = 2

\* ------------------------------------------------------ MotionData calls

MotionTree == DictFromList(<<Node(<<"a">>, None, ZeroVec), Node(<<"b">>, <<"a">>, ZeroVec)>>)

FrameCounts == {0, 1, MaxFrames}

\* mappings handed in as positions (cols = 3) or rotations (cols = 4): well
\* shaped ones over one or two nodes, one with the other column count, one
\* holding a 1-D array, one naming a node the tree does not have
MapChoices(cols, other) ==
    {<<>>}
    \cup {<<Entry(<<"a">>, Arr(<<n, cols>>))>> : n \in FrameCounts}
    \cup {<<Entry(<<"a">>, Arr(<<MaxFrames, cols>>)), Entry(<<"b">>, Arr(<<n, cols>>))>> :
             n \in FrameCounts \ {0}}
    \cup {<<Entry(<<"a">>, Arr(<<MaxFrames, other>>))>>,
          <<Entry(<<"a">>, Arr(<<cols>>))>>,
          <<Entry(Missing, Arr(<<MaxFrames, cols>>))>>}

OptChoices(S) == {Given(v) : v \in S} \cup {NoArg}

PositionArgs == OptChoices(MapChoices(3, 4))

RotationArgs == OptChoices(MapChoices(4, 3))

FrameTimeArgs == OptChoices({8333})

InitMotion ==
    /\ fnInput = <<>>
    /\ fnResult = Pending
    /\ trees = <<>>
    /\ tlast = TreeIdle
    /\ mds = <<>>
    /\ mlast = MotionIdle
    /\ hp = HierIdle
    /\ rt = RoundTripIdle
    /\ kin = KinIdle

\* the outcome of a call on receiver r (0: the constructor) that ended with `out`
MotionCall(op, r, given, out) ==
    /\ mds' = IF out.err # "ok" \/ out.self THEN mds
              ELSE IF r = 0 THEN Append(mds, out.md)
              ELSE StoreMotion(mds, r, out.md)
    /\ mlast' = [op |-> op, recv |-> r,
                 before |-> IF r = 0 THEN NoMD ELSE mds[r],
                 given |-> given, err |-> out.err,
                 ret |-> IF out.err # "ok" THEN 0
                         ELSE IF out.self THEN r ELSE Len(mds) + 1]
    /\ UNCHANGED <<fnInput, fnResult, trees, tlast, hp, rt, kin>>

MNew ==
    /\ Len(mds) < MaxMotions
    /\ \E p \in PositionArgs, q \in RotationArgs, ft \in FrameTimeArgs :
           MotionCall("new", 0, TRUE, NewMotionData(MotionTree, p, q, ft))

MCopyWith ==
    /\ Len(mds) < MaxMotions
    /\ \E r \in DOMAIN mds, p \in PositionArgs, q \in RotationArgs, ft \in FrameTimeArgs :
           MotionCall("copy_with", r, p.given \/ q.given \/ ft.given,
                      md_copy_with(mds[r], p, q, ft))

NextMotion == MNew \/ MCopyWith

SpecMotion == InitMotion /\ [][NextMotion]_vars

\* ------------------------------------------------------ MotionData claims

ArraysOf(md) ==
    {md.positions[i].arr : i \in DOMAIN md.positions}
        \cup {md.rotations[i].arr : i \in DOMAIN md.rotations}

\* C8: in every MotionData instance all position and rotation arrays have
\* frame_count rows (an accepted input is stored as given, so an input whose
\* arrays differ in frame count would show up as such an instance).
C8_Original ==
    \A i \in DOMAIN mds : \A a \in ArraysOf(mds[i]) : a.shape[1] = mds[i].frame_count

\* C9 as stated: copy_with leaves the receiver as it was and, when it
\* succeeds, returns an instance other than the receiver.
C9_Original ==
    mlast.op = "copy_with" =>
        /\ mds[mlast.recv] = mlast.before
        /\ mlast.err = "ok" => mlast.ret # mlast.recv

\* C9: copy_with never changes an existing instance; called with at least
\* one argument it returns a newly constructed instance when it succeeds,
\* called with none it returns the receiver itself; a failing call creates
\* nothing.
C9_CopyWith ==
    [][mlast'.op = "copy_with" =>
        /\ \A i \in DOMAIN mds : mds'[i] = mds[i]
        /\ mds'[mlast'.recv] = mlast'.before
        /\ IF mlast'.err # "ok" THEN mds' = mds
           ELSE IF mlast'.given
           THEN mlast'.ret = Len(mds) + 1 /\ Len(mds') = Len(mds) + 1
           ELSE mlast'.ret = mlast'.recv /\ mds' = mds]_vars

\* a copy_with that replaced the positions of an instance
C9_Witness ==
    /\ mlast.op = "copy_with" /\ mlast.err = "ok" /\ mlast.given
    /\ mlast.recv = 1 /\ mlast.ret = 2
    /\ mds[2].positions # mds[1].positions
    /\ mds[2].rotations = mds[1].rotations

\* ================================================================== floats

RECURSIVE Pow10(_)
Pow10(e) == IF e = 0 THEN 1 ELSE 10 * Pow10(e - 1)

\* the decimal places the model's floats keep
Places == 6

Micro == Pow10(Places)

\* ================================================================ rotations

\* Angles are whole quarter turns.  A unit quaternion (x, y, z, w) is
\* written as the integer vector that points the same way, its components
\* in {-1, 0, 1}: the 48 quaternions generated by quarter turns about the
\* axes.  q and -q are different quaternions of the same rotation.
QuarterTurn == 90 * Micro

Sgn(x) == IF x > 0 THEN 1 ELSE IF x < 0 THEN -1 ELSE 0

QuatIdentity == <<0, 0, 0, 1>>

QuatNeg(q) == [i \in 1..4 |-> 0 - q[i]]

\* the Hamilton product, scaled back to components in {-1, 0, 1}
QuatMul(a, b) ==
    <<Sgn(a[4] * b[1] + a[1] * b[4] + a[2] * b[3] - a[3] * b[2]),
      Sgn(a[4] * b[2] - a[1] * b[3] + a[2] * b[4] + a[3] * b[1]),
      Sgn(a[4] * b[3] + a[1] * b[2] - a[2] * b[1] + a[3] * b[4]),
      Sgn(a[4] * b[4] - a[1] * b[1] - a[2] * b[2] - a[3] * b[3])>>

\* (cos, sin) of half of k quarter turns, k = 0..7, up to a positive factor
HalfAngle ==
    <<<<1, 0>>, <<1, 1>>, <<0, 1>>, <<-1, 1>>, <<-1, 0>>, <<-1, -1>>, <<0, -1>>, <<1, -1>>>>

AxisIndex(axis) == IF axis = "X" THEN 1 ELSE IF axis = "Y" THEN 2 ELSE 3

\* the quaternion of a rotation of `degrees` about one axis
ElementaryQuat(axis, degrees) ==
    LET cs == HalfAngle[((degrees \div QuarterTurn) % 8) + 1] IN
    [i \in 1..4 |-> IF i = 4 THEN cs[1] ELSE IF i = AxisIndex(axis) THEN cs[2] ELSE 0]

RECURSIVE EulerCompose(_, _, _, _)
EulerCompose(seq, angles, i, acc) ==
    IF i > Len(seq) THEN acc
    ELSE EulerCompose(seq, angles, i + 1, QuatMul(acc, ElementaryQuat(seq[i], angles[i])))

\* Rotation.from_euler(seq, angles, degrees=True).as_quat() for an upper
\* case (intrinsic) seq; seq must have 1 to 3 axes, no two in a row equal
from_euler(seq, angles) ==
    IF Len(seq) < 1 \/ Len(seq) > 3 \/ Len(angles) # Len(seq)
       \/ \E i \in 1..(Len(seq) - 1) : seq[i] = seq[i + 1]
    THEN [err |-> "ValueError", val |-> QuatIdentity]
    ELSE [err |-> "ok", val |-> EulerCompose(seq, angles, 1, QuatIdentity)]

\* the angle triples as_euler may return: first and third within
\* [-180, 180], the second within [-90, 90], and in gimbal lock (second at
\* +-90) the third set to zero
EulerRange ==
    {<<a * QuarterTurn, b * QuarterTurn, c * QuarterTurn>> :
        a \in -2..2, b \in -1..1, c \in -2..2}

CanonicalEuler == {t \in EulerRange : t[2] # 0 => t[3] = 0}

\* Rotation.from_quat(q).as_euler(seq, degrees=True): a triple in the
\* range that gives the rotation of q; which of +180 and -180 comes out
\* rests on rounding, so each is possible
as_euler(seq, q) ==
    {t \in CanonicalEuler : from_euler(seq, t).val \in {q, QuatNeg(q)}}

\* =============================================================== BVH text

\* A line of text is its first token kw and the tokens after it: a name
\* token (a node name, or the Site of "End Site"; None when the line ends
\* after kw), word tokens (channel names) and number tokens.  A number token
\* is a decimal numeral m x 10^e; ok = FALSE is a token float() rejects.
Dec(m, e) == [m |-> m, e |-> e, ok |-> TRUE]

NotANumber == [m |-> 0, e |-> 0, ok |-> FALSE]

Line(kw, name, toks, nums) == [kw |-> kw, name |-> name, toks |-> toks, nums |-> nums]

\* float(token)
parse_float(tok) == tok.m * Pow10(tok.e + Places)

\* int(token) accepts a numeral without fraction digits only
IsInt(tok) == tok.ok /\ tok.e >= 0

parse_int(tok) == tok.m * Pow10(tok.e)

RECURSIVE StripZeros(_, _)
StripZeros(m, e) ==
    IF m # 0 /\ m % 10 = 0 THEN StripZeros(m \div 10, e + 1) ELSE Dec(m, e)

\* the numeral written for a float by "%.18e" (np.savetxt) and by ".6f":
\* both keep every digit of a float that has no more than six places
format_float(v) == IF v = 0 THEN Dec(0, 0) ELSE StripZeros(v, 0 - Places)

\* the numeral written for an int
format_int(n) == IF n = 0 THEN Dec(0, 0) ELSE StripZeros(n, 0)

AllNumeric(nums) == \A i \in DOMAIN nums : nums[i].ok

\* ---------------------------------------------------- hierarchy section

NoLayout == [position_channels |-> <<>>, rotation_channels |-> <<>>]

PositionChannelNames == {"Xposition", "Yposition", "Zposition"}

RotationChannelNames == {"Xrotation", "Yrotation", "Zrotation"}

IsPositionChannel(ch) == ch \in PositionChannelNames

IsRotationChannel(ch) == ch \in RotationChannelNames

filter_position_channels(channels) == SelectSeq(channels, IsPositionChannel)

filter_rotation_channels(channels) == SelectSeq(channels, IsRotationChannel)

from_bvh_channels(channels) ==
    [position_channels |-> filter_position_channels(channels),
     rotation_channels |-> filter_rotation_channels(channels)]

layout_channels(layout) == layout.position_channels \o layout.rotation_channels

channel_count(layout) == Len(layout_channels(layout))

\* has_position_channels answering for channels of either kind
HasChannels(layout) == layout.position_channels \o layout.rotation_channels # <<>>

has_position_channels(layout) == layout.position_channels # <<>>

has_rotation_channels(layout) == layout.rotation_channels # <<>>

\* _parse_node_line: tokens[1] of a line that ends after its keyword raises
\* IndexError, which nothing catches
parse_node_line(current_node_name, line) ==
    IF line.name = None THEN [err |-> "IndexError", node |-> Node(None, None, ZeroVec)]
    ELSE IF line.kw = "ROOT" /\ current_node_name # None
    THEN [err |-> "ParseError", node |-> Node(None, None, ZeroVec)]
    ELSE IF line.kw = "JOINT" /\ current_node_name = None
    THEN [err |-> "ParseError", node |-> Node(None, None, ZeroVec)]
    ELSE IF line.kw = "End" /\ (current_node_name = None \/ line.name # <<"Site">>)
    THEN [err |-> "ParseError", node |-> Node(None, None, ZeroVec)]
    ELSE [err |-> "ok",
          node |-> Node(IF line.kw = "End" THEN Append(current_node_name, "_EndSite")
                        ELSE line.name,
                        IF line.kw # "ROOT" THEN current_node_name ELSE None,
                        ZeroVec)]

parse_offset_line(nums) ==
    IF ~AllNumeric(nums) THEN [err |-> "ParseError", val |-> <<>>]
    ELSE [err |-> "ok", val |-> [i \in DOMAIN nums |-> parse_float(nums[i])]]

\* Node.copy_with(offset=...)
node_copy_with_offset(node, offset) ==
    IF Len(offset) # 3 THEN [err |-> "ValueError", node |-> node]
    ELSE [err |-> "ok", node |-> [node EXCEPT !.offset = offset]]

\* _parse_channels_line without the comparison of the count with the names
ParseChannelsUncounted(line) ==
    IF line.nums = <<>> \/ ~IsInt(line.nums[1])
    THEN [err |-> "ParseError", val |-> NoLayout]
    ELSE IF \E i \in DOMAIN line.toks :
                line.toks[i] \notin PositionChannelNames \cup RotationChannelNames
    THEN [err |-> "ParseError", val |-> NoLayout]
    ELSE [err |-> "ok", val |-> from_bvh_channels(line.toks)]

\* _parse_channels_line: the count is tokens[1], the names are tokens[2:]
parse_channels_line(line) ==
    IF line.nums = <<>> \/ ~IsInt(line.nums[1])
    THEN [err |-> "ParseError", val |-> NoLayout]
    ELSE IF Len(line.toks) # parse_int(line.nums[1])
    THEN [err |-> "ParseError", val |-> NoLayout]
    ELSE IF \E i \in DOMAIN line.toks :
                line.toks[i] \notin PositionChannelNames \cup RotationChannelNames
    THEN [err |-> "ParseError", val |-> NoLayout]
    ELSE [err |-> "ok", val |-> from_bvh_channels(line.toks)]

\* the loop state of parse_hierarchy_section; node_channels is a dict
HierStart ==
    [err |-> "ok", nodes |-> <<>>, node_channels |-> <<>>, node_stack |-> <<>>,
     current_node_name |-> None]

HierFail(st, e) == [st EXCEPT !.err = e]

ChannelsSet(node_channels, name, layout) ==
    IF \E i \in DOMAIN node_channels : node_channels[i].name = name
    THEN [i \in DOMAIN node_channels |->
             IF node_channels[i].name = name
             THEN [name |-> name, layout |-> layout] ELSE node_channels[i]]
    ELSE Append(node_channels, [name |-> name, layout |-> layout])

\* the node an OFFSET line updates: nodes[-1], the node declared last
OffsetTarget(st) == Len(st.nodes)

\* one pass of the loop body over a line
HierStep(st, line) ==
    IF line.kw \in {"ROOT", "JOINT", "End"} THEN
        LET n == parse_node_line(st.current_node_name, line) IN
        IF n.err # "ok" THEN HierFail(st, n.err)
        ELSE [st EXCEPT !.nodes = Append(@, n.node),
                        !.node_stack = Append(@, n.node.name),
                        !.current_node_name = n.node.name]
    ELSE IF line.kw = "OFFSET" THEN
        IF st.current_node_name = None THEN HierFail(st, "ParseError")
        ELSE LET o == parse_offset_line(line.nums)
                 c == node_copy_with_offset(st.nodes[OffsetTarget(st)], o.val)
             IN  IF o.err # "ok" THEN HierFail(st, o.err)
                 ELSE IF c.err # "ok" THEN HierFail(st, c.err)
                 ELSE [st EXCEPT !.nodes[OffsetTarget(st)] = c.node]
    ELSE IF line.kw = "}" THEN
        IF st.node_stack = <<>> THEN HierFail(st, "ParseError")
        ELSE LET popped == SubSeq(st.node_stack, 1, Len(st.node_stack) - 1) IN
             [st EXCEPT !.node_stack = popped,
                        !.current_node_name =
                            IF popped # <<>> THEN popped[Len(popped)] ELSE None]
    ELSE IF line.kw = "CHANNELS" THEN
        IF st.current_node_name = None THEN HierFail(st, "ParseError")
        ELSE LET c == parse_channels_line(line) IN
             IF c.err # "ok" THEN HierFail(st, c.err)
             ELSE [st EXCEPT !.node_channels =
                                 ChannelsSet(@, st.current_node_name, c.val)]
    ELSE st

\* the return statement: the tree is built from the node list
HierReturn(st) ==
    LET t == from_nodes(st.nodes) IN
    [err |-> t.err, kinematic_tree |-> t.nodes,
     node_channels |-> IF t.err = "ok" THEN st.node_channels ELSE <<>>]

RECURSIVE HierFold(_, _, _)
HierFold(st, lines, i) ==
    IF st.err # "ok" \/ i > Len(lines) THEN st
    ELSE HierFold(HierStep(st, lines[i]), lines, i + 1)

parse_hierarchy_section(hierarchy_lines) ==
    LET st == HierFold(HierStart, hierarchy_lines, 1) IN
    IF st.err # "ok"
    THEN [err |-> st.err, kinematic_tree |-> <<>>, node_channels |-> <<>>]
    ELSE HierReturn(st)

\* ------------------------------------------------ sections and motion data

RECURSIVE FirstMotionLine(_, _)
FirstMotionLine(lines, i) ==
    IF i > Len(lines) THEN 0
    ELSE IF lines[i] = Line("MOTION", None, <<>>, <<>>) THEN i
    ELSE FirstMotionLine(lines, i + 1)

\* content is the text's non-blank lines, stripped
split_into_sections(content) ==
    LET motion_index == FirstMotionLine(content, 1) IN
    IF motion_index = 0
    THEN [err |-> "ParseError", hierarchy_lines |-> <<>>, motion_lines |-> <<>>]
    ELSE [err |-> "ok", hierarchy_lines |-> SubSeq(content, 1, motion_index - 1),
          motion_lines |-> SubSeq(content, motion_index, Len(content))]

\* the tokens of a line after the first, and whether a line has only number
\* tokens after its first
TokenCount(line) ==
    1 + (IF line.name = None THEN 0 ELSE 1) + Len(line.toks) + Len(line.nums)

\* a data row is a line of number tokens; its first token is no keyword
RowTag == "#"

RowTokens(line) ==
    IF line.kw = RowTag /\ line.name = None /\ line.toks = <<>> THEN line.nums
    ELSE <<NotANumber>>

RECURSIVE SumChannels(_, _)
SumChannels(node_channels, i) ==
    IF i > Len(node_channels) THEN 0
    ELSE channel_count(node_channels[i].layout) + SumChannels(node_channels, i + 1)

NoMotion == [err |-> "ParseError", frame_count |-> 0, frame_time |-> 0, frames |-> <<>>]

RECURSIVE RowsFail(_, _, _)
RowsFail(rows, expected_channels, i) ==
    IF i > Len(rows) THEN FALSE
    ELSE \/ ~AllNumeric(RowTokens(rows[i]))
         \/ Len(RowTokens(rows[i])) # expected_channels
         \/ RowsFail(rows, expected_channels, i + 1)

\* parse_motion_data without the comparison of the rows read with the
\* count declared on the Frames: line
ParseMotionUncounted(hierarchy, motion_lines_all) ==
    LET motion_lines == SubSeq(motion_lines_all, 2, Len(motion_lines_all))
        frames_line == motion_lines[1]
        time_line == motion_lines[2]
        frame_data_lines == SubSeq(motion_lines, 3, Len(motion_lines))
        expected_channels == SumChannels(hierarchy.node_channels, 1)
    IN  IF Len(motion_lines) < 2 THEN NoMotion
        ELSE IF TokenCount(frames_line) < 2 \/ frames_line.kw # "Frames:" THEN NoMotion
        ELSE IF frames_line.name # None \/ frames_line.toks # <<>>
                \/ ~IsInt(frames_line.nums[1]) THEN NoMotion
        ELSE IF TokenCount(time_line) < 3 \/ time_line.kw # "Frame"
                \/ time_line.name # None \/ time_line.toks = <<>>
                \/ time_line.toks[1] # "Time:" THEN NoMotion
        ELSE IF Len(time_line.toks) > 1 \/ ~time_line.nums[1].ok THEN NoMotion
        ELSE IF RowsFail(frame_data_lines, expected_channels, 1) THEN NoMotion
        ELSE [err |-> "ok", frame_count |-> parse_int(frames_line.nums[1]),
              frame_time |-> parse_float(time_line.nums[1]),
              frames |-> [i \in DOMAIN frame_data_lines |->
                            [j \in DOMAIN frame_data_lines[i].nums |->
                                parse_float(frame_data_lines[i].nums[j])]]]

parse_motion_data(hierarchy, motion_lines_all) ==
    LET motion_lines == SubSeq(motion_lines_all, 2, Len(motion_lines_all))
        frames_line == motion_lines[1]
        time_line == motion_lines[2]
        frame_data_lines == SubSeq(motion_lines, 3, Len(motion_lines))
        expected_channels == SumChannels(hierarchy.node_channels, 1)
    IN  IF Len(motion_lines) < 2 THEN NoMotion
        ELSE IF TokenCount(frames_line) < 2 \/ frames_line.kw # "Frames:" THEN NoMotion
        ELSE IF frames_line.name # None \/ frames_line.toks # <<>>
                \/ ~IsInt(frames_line.nums[1]) THEN NoMotion
        ELSE IF TokenCount(time_line) < 3 \/ time_line.kw # "Frame"
                \/ time_line.name # None \/ time_line.toks = <<>>
                \/ time_line.toks[1] # "Time:" THEN NoMotion
        ELSE IF Len(time_line.toks) > 1 \/ ~time_line.nums[1].ok THEN NoMotion
        ELSE IF RowsFail(frame_data_lines, expected_channels, 1) THEN NoMotion
        ELSE IF Len(frame_data_lines) # parse_int(frames_line.nums[1]) THEN NoMotion
        ELSE [err |-> "ok", frame_count |-> parse_int(frames_line.nums[1]),
              frame_time |-> parse_float(time_line.nums[1]),
              frames |-> [i \in DOMAIN frame_data_lines |->
                            [j \in DOMAIN frame_data_lines[i].nums |->
                                parse_float(frame_data_lines[i].nums[j])]]]

ChannelAxis(channel) ==
    IF channel \in {"Xposition", "Xrotation"} THEN "X"
    ELSE IF channel \in {"Yposition", "Yrotation"} THEN "Y" ELSE "Z"

\* the position _parse_channel_values builds: the value of the last channel
\* of an axis, 0 for an axis without channel
LastIndex(channels, channel) ==
    IF \E k \in DOMAIN channels : channels[k] = channel
    THEN CHOOSE k \in DOMAIN channels :
             channels[k] = channel /\ \A l \in DOMAIN channels : channels[l] = channel => l <= k
    ELSE 0

ChannelPosition(channels, values) ==
    [a \in 1..3 |->
        LET k == LastIndex(channels, <<"Xposition", "Yposition", "Zposition">>[a]) IN
        IF k = 0 THEN 0 ELSE values[k]]

RotationIndices(channels) == SelectSeq([k \in DOMAIN channels |-> k],
                                       LAMBDA k : IsRotationChannel(channels[k]))

\* _parse_channel_values: channels are the layout's, values the node's
\* slice of the row
parse_channel_values(channels, values) ==
    LET idx == RotationIndices(channels)
        rot_order == [n \in DOMAIN idx |-> ChannelAxis(channels[idx[n]])]
        rot_values == [n \in DOMAIN idx |-> values[idx[n]]]
        rotation == IF rot_order # <<>> THEN from_euler(rot_order, rot_values)
                    ELSE [err |-> "ok", val |-> QuatIdentity]
    IN  IF Len(channels) # Len(values)
        THEN [err |-> "ParseError", position |-> ZeroVec, rotation |-> QuatIdentity]
        ELSE [err |-> rotation.err, position |-> ChannelPosition(channels, values),
              rotation |-> rotation.val]

\* where the slice of the i-th node of node_channels starts in a row
SliceOffset(node_channels, i) == SumChannels(SubSeq(node_channels, 1, i - 1), 1)

Decoded(node_channels, i, frame_data) ==
    LET layout == node_channels[i].layout
        offset == SliceOffset(node_channels, i)
    IN  parse_channel_values(layout_channels(layout),
                             SubSeq(frame_data, offset + 1, offset + channel_count(layout)))

\* the error of the first slice, frame by frame and node by node, that
\* does not decode
FirstDecodeError(nc, frames) ==
    LET Bad(f, i) == Decoded(nc, i, frames[f]).err # "ok"
        f0 == CHOOSE f \in DOMAIN frames :
                  /\ \E i \in DOMAIN nc : Bad(f, i)
                  /\ \A g \in 1..(f - 1) : \A i \in DOMAIN nc : ~Bad(g, i)
        i0 == CHOOSE i \in DOMAIN nc : Bad(f0, i) /\ \A j \in 1..(i - 1) : ~Bad(f0, j)
    IN  Decoded(nc, i0, frames[f0]).err

NodesWith(node_channels, has(_)) ==
    SelectSeq(node_channels, LAMBDA entry : has(entry.layout))

IndexOfName(node_channels, name) ==
    CHOOSE i \in DOMAIN node_channels : node_channels[i].name = name

build_motion_data_efficiently(hierarchy, parsed) ==
    LET nc == hierarchy.node_channels
        pos_nodes == NodesWith(nc, has_position_channels)
        rot_nodes == NodesWith(nc, has_rotation_channels)
        position_arrays ==
            [n \in DOMAIN pos_nodes |->
                Entry(pos_nodes[n].name,
                      ArrOf([f \in DOMAIN parsed.frames |->
                                Decoded(nc, IndexOfName(nc, pos_nodes[n].name),
                                        parsed.frames[f]).position], 3))]
        rotation_arrays ==
            [n \in DOMAIN rot_nodes |->
                Entry(rot_nodes[n].name,
                      ArrOf([f \in DOMAIN parsed.frames |->
                                Decoded(nc, IndexOfName(nc, rot_nodes[n].name),
                                        parsed.frames[f]).rotation], 4))]
    IN  IF \E f \in DOMAIN parsed.frames, i \in DOMAIN nc :
               Decoded(nc, i, parsed.frames[f]).err # "ok"
        THEN Raised(FirstDecodeError(nc, parsed.frames))
        ELSE NewMotionData(hierarchy.kinematic_tree, Given(position_arrays),
                           Given(rotation_arrays), Given(parsed.frame_time))

parse_bvh_content(content) ==
    LET sections == split_into_sections(content)
        hierarchy == parse_hierarchy_section(sections.hierarchy_lines)
        parsed == parse_motion_data(hierarchy, sections.motion_lines)
    IN  IF sections.err # "ok" THEN Raised(sections.err)
        ELSE IF hierarchy.err # "ok" THEN Raised(hierarchy.err)
        ELSE IF parsed.err # "ok" THEN Raised(parsed.err)
        ELSE build_motion_data_efficiently(hierarchy, parsed)

\* =================================================================== saver

PositionXYZ == <<"Xposition", "Yposition", "Zposition">>

AxisChannel(axis) ==
    IF axis = "X" THEN "Xrotation" ELSE IF axis = "Y" THEN "Yrotation" ELSE "Zrotation"

\* the six keys of _ROTATION_CHANNELS_BY_ORDER
RotationOrders ==
    {<<"X", "Y", "Z">>, <<"X", "Z", "Y">>, <<"Y", "X", "Z">>,
     <<"Y", "Z", "X">>, <<"Z", "X", "Y">>, <<"Z", "Y", "X">>}

\* the channels of an order, last axis first
RotationChannelsReversed(order) ==
    [i \in DOMAIN order |-> AxisChannel(order[Len(order) + 1 - i])]

rotation_channels_from_order(order) == [i \in DOMAIN order |-> AxisChannel(order[i])]

RotationOrderReversed(chs) ==
    [err |-> "ok", val |-> [i \in DOMAIN chs |-> ChannelAxis(chs[Len(chs) + 1 - i])]]

rotation_order_from_channels(chs) ==
    IF \E o \in RotationOrders : rotation_channels_from_order(o) = chs
    THEN [err |-> "ok", val |-> [i \in DOMAIN chs |-> ChannelAxis(chs[i])]]
    ELSE [err |-> "ValueError", val |-> <<>>]

from_rotation_order(rotation_order, has_position) ==
    [position_channels |-> IF has_position THEN PositionXYZ ELSE <<>>,
     rotation_channels |-> rotation_channels_from_order(rotation_order)]

DefaultRotationOrder == <<"Z", "X", "Y">>

\* _get_channel_layout_for_node without the lookup of an explicit layout
DefaultLayoutOnly(tree, node_name, channel_layouts) ==
    from_rotation_order(DefaultRotationOrder, is_root(DictGet(tree, node_name)))

\* channel_layouts is a dict from node names to layouts
get_channel_layout_for_node(tree, node_name, channel_layouts) ==
    IF \E i \in DOMAIN channel_layouts : channel_layouts[i].name = node_name
    THEN channel_layouts[CHOOSE i \in DOMAIN channel_layouts :
                             channel_layouts[i].name = node_name].layout
    ELSE from_rotation_order(DefaultRotationOrder, is_root(DictGet(tree, node_name)))

get_parent(tree, node_name) == DictGet(tree, node_name).parent_name

\* has_siblings answering no for every node
HasNoSiblings(tree, node_name) == FALSE

has_siblings(tree, node_name) ==
    /\ get_parent(tree, node_name) # None
    /\ DictHas(tree, get_parent(tree, node_name))
    /\ \E i \in DOMAIN tree :
          tree[i].parent_name = get_parent(tree, node_name) /\ tree[i].name # node_name

OffsetLine(offset) ==
    Line("OFFSET", None, <<>>, [i \in DOMAIN offset |-> format_float(offset[i])])

\* _build_node_string; channels and children may be empty
build_node_string(node_type, node_name, offset, channels, children) ==
    <<IF node_type = "End" THEN Line("End", <<"Site">>, <<>>, <<>>)
      ELSE Line(node_type, node_name, <<>>, <<>>),
      Line("{", None, <<>>, <<>>), OffsetLine(offset)>>
    \o (IF channels # <<>>
        THEN <<Line("CHANNELS", None, channels, <<format_int(Len(channels))>>)>>
        ELSE <<>>)
    \o children
    \o <<Line("}", None, <<>>, <<>>)>>

\* _build_nodes_recursive gives the node's lines and the names it appended
\* to node_order
RECURSIVE build_nodes_recursive(_, _, _)
RECURSIVE BuildChildren(_, _, _, _)
BuildChildren(tree, children, i, channel_layouts) ==
    IF i > Len(children) THEN [lines |-> <<>>, order |-> <<>>]
    ELSE LET one == build_nodes_recursive(tree, children[i].name, channel_layouts)
             rest == BuildChildren(tree, children, i + 1, channel_layouts)
         IN  [lines |-> one.lines \o rest.lines, order |-> one.order \o rest.order]

\* _build_nodes_recursive writing the nested End Site of a leaf beside
\* siblings at the leaf's own offset
BuildNodesEndSiteAtOffset(tree, node_name, channel_layouts) ==
    LET node == DictGet(tree, node_name)
        channels == layout_channels(get_channel_layout_for_node(tree, node_name, channel_layouts))
        children == get_children(tree, node_name)
        below == BuildChildren(tree, children, 1, channel_layouts)
    IN  IF children # <<>> THEN
            [lines |-> build_node_string(IF is_root(node) THEN "ROOT" ELSE "JOINT",
                                         node.name, node.offset, channels, below.lines),
             order |-> <<node.name>> \o below.order]
        ELSE IF is_root(node) THEN
            [lines |-> build_node_string("ROOT", node.name, node.offset, channels, <<>>),
             order |-> <<node.name>>]
        ELSE IF has_siblings(tree, node_name) THEN
            [lines |-> build_node_string("JOINT", node.name, node.offset, channels,
                           build_node_string("End", node.name, node.offset, <<>>, <<>>)),
             order |-> <<node.name>>]
        ELSE [lines |-> build_node_string("End", node.name, node.offset, <<>>, <<>>),
              order |-> <<>>]

build_nodes_recursive(tree, node_name, channel_layouts) ==
    LET node == DictGet(tree, node_name)
        channels == layout_channels(get_channel_layout_for_node(tree, node_name, channel_layouts))
        children == get_children(tree, node_name)
        below == BuildChildren(tree, children, 1, channel_layouts)
    IN  IF children # <<>> THEN
            [lines |-> build_node_string(IF is_root(node) THEN "ROOT" ELSE "JOINT",
                                         node.name, node.offset, channels, below.lines),
             order |-> <<node.name>> \o below.order]
        ELSE IF is_root(node) THEN
            [lines |-> build_node_string("ROOT", node.name, node.offset, channels, <<>>),
             order |-> <<node.name>>]
        ELSE IF has_siblings(tree, node_name) THEN
            [lines |-> build_node_string("JOINT", node.name, node.offset, channels,
                           build_node_string("End", node.name, ZeroVec, <<>>, <<>>)),
             order |-> <<node.name>>]
        ELSE [lines |-> build_node_string("End", node.name, node.offset, <<>>, <<>>),
              order |-> <<>>]

build_hierarchy_string(kinematic_tree, channel_layouts) ==
    IF root(kinematic_tree) = None
    THEN [err |-> "ValueError", lines |-> <<>>, order |-> <<>>]
    ELSE LET b == build_nodes_recursive(kinematic_tree, root(kinematic_tree).name,
                                        channel_layouts)
         IN  [err |-> "ok", lines |-> <<Line("HIERARCHY", None, <<>>, <<>>)>> \o b.lines,
              order |-> b.order]

build_motion_info_string(motion_data) ==
    <<Line("MOTION", None, <<>>, <<>>),
      Line("Frames:", None, <<>>, <<format_int(motion_data.frame_count)>>),
      Line("Frame", None, <<"Time:">>, <<format_float(motion_data.frame_time)>>)>>

has_positions(md, name) == \E i \in DOMAIN md.positions : md.positions[i].name = name

has_rotations(md, name) == \E i \in DOMAIN md.rotations : md.rotations[i].name = name

MapGet(map, name) == map[CHOOSE i \in DOMAIN map : map[i].name = name].arr

\* the error _extract_motion_values ends with, "ok" if none
ExtractError(node_order, md, channel_layouts) ==
    LET Layout(n) == get_channel_layout_for_node(md.kinematic_tree, n, channel_layouts)
        Lacks(n) ==
            \/ has_position_channels(Layout(n)) /\ ~has_positions(md, n)
            \/ has_rotation_channels(Layout(n)) /\ ~has_rotations(md, n)
            \/ has_rotation_channels(Layout(n))
                   /\ rotation_order_from_channels(Layout(n).rotation_channels).err # "ok"
    IN  IF \E i \in DOMAIN node_order : Lacks(node_order[i]) THEN "ValueError"
        ELSE IF \A i \in DOMAIN node_order : channel_count(Layout(node_order[i])) = 0
        THEN "ValueError"
        ELSE "ok"

\* the columns a node contributes to the row of frame f: its position, then
\* its Euler angles in the layout's rotation order
NodeColumns(md, layout, name, f) ==
    LET pos == IF has_position_channels(layout)
               THEN {MapGet(md.positions, name).data[f]} ELSE {<<>>}
        rot == IF has_rotation_channels(layout)
               THEN as_euler(rotation_order_from_channels(layout.rotation_channels).val,
                             MapGet(md.rotations, name).data[f])
               ELSE {<<>>}
    IN  {p \o r : p \in pos, r \in rot}

RECURSIVE RowChoices(_, _, _, _, _)
RowChoices(node_order, md, channel_layouts, f, i) ==
    IF i > Len(node_order) THEN {<<>>}
    ELSE {cols \o rest :
             cols \in NodeColumns(md, get_channel_layout_for_node(md.kinematic_tree,
                                          node_order[i], channel_layouts),
                                  node_order[i], f),
             rest \in RowChoices(node_order, md, channel_layouts, f, i + 1)}

\* the matrices _extract_motion_values may return, one row per frame
RECURSIVE extract_motion_values(_, _, _, _)
extract_motion_values(node_order, md, channel_layouts, f) ==
    IF f > md.frame_count THEN {<<>>}
    ELSE {<<row>> \o rest :
             row \in RowChoices(node_order, md, channel_layouts, f, 1),
             rest \in extract_motion_values(node_order, md, channel_layouts, f + 1)}

RowLine(row) == Line(RowTag, None, <<>>, [j \in DOMAIN row |-> format_float(row[j])])

\* save_bvh: the texts it may write (their non-blank lines), or its error
save_bvh(motion_data, channel_layouts) ==
    LET h == build_hierarchy_string(motion_data.kinematic_tree, channel_layouts)
        e == ExtractError(h.order, motion_data, channel_layouts)
    IN  IF h.err # "ok" THEN {[err |-> h.err, lines |-> <<>>]}
        ELSE IF e # "ok" THEN {[err |-> e, lines |-> <<>>]}
        ELSE {[err |-> "ok",
               lines |-> h.lines \o build_motion_info_string(motion_data)
                         \o [f \in DOMAIN m |-> RowLine(m[f])]] :
                 m \in extract_motion_values(h.order, motion_data, channel_layouts, 1)}

\* ------------------------------------------- reading a hierarchy section

\* The text read so far, as its blocks: one entry per declaration line with
\* the declaration open around it (0: none) and the OFFSET written last
\* directly inside its own block.
Decl(kw, name, parent) ==
    [kw |-> kw, name |-> name, parent |-> parent, has_offset |-> FALSE, own |-> ZeroVec]

Top(stack) == IF stack = <<>> THEN 0 ELSE stack[Len(stack)]

BlocksStep(h, line) ==
    IF line.kw \in {"ROOT", "JOINT", "End"} THEN
        [h EXCEPT !.decls = Append(@, Decl(line.kw, line.name, Top(h.open))),
                  !.open = Append(@, Len(h.decls) + 1)]
    ELSE IF line.kw = "OFFSET" /\ h.open # <<>> /\ AllNumeric(line.nums) THEN
        [h EXCEPT !.decls[Top(h.open)].has_offset = TRUE,
                  !.decls[Top(h.open)].own = parse_offset_line(line.nums).val]
    ELSE IF line.kw = "}" /\ h.open # <<>> THEN
        [h EXCEPT !.open = SubSeq(@, 1, Len(@) - 1)]
    ELSE h

RotationZXY == <<"Zrotation", "Xrotation", "Yrotation">>

HierLineChoices ==
    {Line("ROOT", <<"r">>, <<>>, <<>>), Line("JOINT", <<"a">>, <<>>, <<>>),
     Line("End", <<"Site">>, <<>>, <<>>), Line("End", <<"Eff">>, <<>>, <<>>),
     Line("JOINT", None, <<>>, <<>>),
     Line("OFFSET", None, <<>>, <<Dec(1, 0), Dec(0, 0), Dec(0, 0)>>),
     Line("OFFSET", None, <<>>, <<Dec(2, 0), Dec(0, 0), Dec(0, 0)>>),
     Line("OFFSET", None, <<>>, <<Dec(1, 0), Dec(0, 0)>>),
     Line("OFFSET", None, <<>>, <<Dec(1, 0), NotANumber, Dec(0, 0)>>),
     Line("CHANNELS", None, RotationZXY, <<Dec(3, 0)>>),
     Line("CHANNELS", None, RotationZXY, <<Dec(2, 0)>>),
     Line("}", None, <<>>, <<>>), Line("{", None, <<>>, <<>>)}

InitHier ==
    /\ fnInput = <<>>
    /\ fnResult = Pending
    /\ trees = <<>>
    /\ tlast = TreeIdle
    /\ mds = <<>>
    /\ mlast = MotionIdle
    /\ hp = [HierIdle EXCEPT !.phase = "lines", !.st = HierStart]
    /\ rt = RoundTripIdle
    /\ kin = KinIdle

\* the loop body runs on the next line of the section
HierLine ==
    /\ hp.phase = "lines"
    /\ \E line \in HierLineChoices :
          /\ line.kw \in {"ROOT", "JOINT", "End"} => Len(hp.decls) < MaxDecls
          /\ LET st == HierStep(hp.st, line)
                 h == BlocksStep(hp, line)
             IN  hp' = IF st.err # "ok"
                       THEN [hp EXCEPT !.phase = "done", !.st = st,
                                       !.result = [NoHierarchy EXCEPT !.err = st.err]]
                       ELSE [h EXCEPT !.st = st]
    /\ UNCHANGED <<fnInput, fnResult, trees, tlast, mds, mlast, rt, kin>>

\* the section ends and the function returns
HierEnd ==
    /\ hp.phase = "lines"
    /\ hp' = [hp EXCEPT !.phase = "done", !.result = HierReturn(hp.st)]
    /\ UNCHANGED <<fnInput, fnResult, trees, tlast, mds, mlast, rt, kin>>

NextHier == HierLine \/ HierEnd

SpecHier == InitHier /\ [][NextHier]_vars

\* ------------------------------------------------------ hierarchy claims

RECURSIVE DeclNodeName(_, _)
DeclNodeName(decls, k) ==
    IF decls[k].kw = "End"
    THEN IF decls[k].parent = 0 THEN <<"_EndSite">>
         ELSE Append(DeclNodeName(decls, decls[k].parent), "_EndSite")
    ELSE decls[k].name

HierLoaded == hp.phase = "done" /\ hp.result.err = "ok"

\* every block of the text read was closed
ProperlyNested == hp.open = <<>>

\* C10: the tree loaded from a properly nested hierarchy section has one
\* node per ROOT, JOINT and End Site declaration; the ROOT node has no
\* parent, a JOINT's and an End Site's parent is the innermost node open at
\* its line, an End Site is named <parent>_EndSite and carries the OFFSET
\* written in its own block.
C10_Original ==
    HierLoaded /\ ProperlyNested =>
        LET tree == hp.result.kinematic_tree IN
        /\ Len(tree) = Len(hp.decls)
        /\ \A k \in DOMAIN hp.decls :
              LET d == hp.decls[k]
                  name == DeclNodeName(hp.decls, k)
              IN  /\ DictHas(tree, name)
                  /\ DictGet(tree, name).parent_name =
                        IF d.kw = "ROOT" THEN None ELSE DeclNodeName(hp.decls, d.parent)
                  /\ d.kw = "End" /\ d.has_offset => DictGet(tree, name).offset = d.own

\* ------------------------------------------------- load, save, load again

\* the block of a node as BVH files write it; channels may be empty
Block(kw, name, channels, children) ==
    <<Line(kw, name, <<>>, <<>>), Line("{", None, <<>>, <<>>),
      Line("OFFSET", None, <<>>, <<Dec(1, 0), Dec(0, 0), Dec(0, 0)>>)>>
    \o (IF channels # <<>>
        THEN <<Line("CHANNELS", None, channels, <<format_int(Len(channels))>>)>>
        ELSE <<>>)
    \o children
    \o <<Line("}", None, <<>>, <<>>)>>

EndSite == Block("End", <<"Site">>, <<>>, <<>>)

RootChannelChoices ==
    {PositionXYZ \o RotationZXY,
     PositionXYZ \o <<"Xrotation", "Yrotation", "Zrotation">>,
     RotationZXY \o PositionXYZ,
     RotationZXY, PositionXYZ, <<>>}

JointChannelChoices ==
    {RotationZXY, <<"Yrotation", "Xrotation", "Zrotation">>, <<"Zrotation">>,
     PositionXYZ \o RotationZXY, <<>>}

\* hierarchies: a root alone or with an End Site, one or two joints with
\* End Sites, a joint without End Site alone or beside another joint, an
\* End Site beside a joint; each listed with the channels in text order
Hierarchies ==
    LET R(c, ch) == [lines |-> Block("ROOT", <<"r">>, c, ch.lines),
                     channels |-> <<c>> \o ch.channels]
        J(n, c, ch) == [lines |-> Block("JOINT", <<n>>, c, ch), channels |-> <<c>>]
        E == [lines |-> EndSite, channels |-> <<>>]
        Two(x, y) == [lines |-> x.lines \o y.lines, channels |-> x.channels \o y.channels]
        N == [lines |-> <<>>, channels |-> <<>>]
    IN  {R(c, N) : c \in RootChannelChoices}
        \cup {R(c, E) : c \in RootChannelChoices}
        \cup {R(c, J("a", ca, EndSite)) : c \in RootChannelChoices, ca \in JointChannelChoices}
        \cup {R(c, J("a", ca, <<>>)) : c \in RootChannelChoices, ca \in JointChannelChoices}
        \cup {R(c, Two(J("a", ca, EndSite), E)) :
                 c \in RootChannelChoices, ca \in JointChannelChoices}
        \cup {R(c, Two(J("a", ca, x), J("b", cb, EndSite))) :
                 c \in RootChannelChoices, ca \in JointChannelChoices,
                 cb \in JointChannelChoices, x \in {<<>>, EndSite}}

\* Euler angles, in quarter turns, for the rotation channels of a node
AnglePatterns ==
    <<<<0, 0, 0>>, <<3, 0, 0>>, <<2, 2, 2>>, <<1, 1, 0>>, <<0, 1, 2>>, <<-1, 0, 1>>>>

PositionPattern == <<5 * Micro, 0, 7 * Micro>>

\* the values of a node's channels, in text order, in frame f of the text
\* numbered p
ChannelValues(channels, p, f) ==
    [k \in DOMAIN channels |->
        IF IsPositionChannel(channels[k])
        THEN PositionPattern[((p + f + k) % 3) + 1]
        ELSE AnglePatterns[((p + f) % Len(AnglePatterns)) + 1]
                          [((Len(SelectSeq(SubSeq(channels, 1, k), IsRotationChannel)) - 1) % 3) + 1]
             * QuarterTurn]

RECURSIVE RowValues(_, _, _, _)
RowValues(channels, i, p, f) ==
    IF i > Len(channels) THEN <<>>
    ELSE ChannelValues(channels[i], p + i, f) \o RowValues(channels, i + 1, p, f)

TextOf(h, p, rows) ==
    <<Line("HIERARCHY", None, <<>>, <<>>)>> \o h.lines
    \o <<Line("MOTION", None, <<>>, <<>>),
         Line("Frames:", None, <<>>, <<format_int(rows)>>),
         Line("Frame", None, <<"Time:">>, <<Dec(8333, 0 - Places)>>)>>
    \o [f \in 1..rows |-> RowLine(RowValues(h.channels, 1, p, f))]

\* texts whose rows have one value per declared channel and whose Frames:
\* line counts the rows
BvhTexts ==
    {TextOf(h, p, rows) : h \in Hierarchies, p \in 1..Len(AnglePatterns), rows \in 1..MaxRows}

InitRoundTrip ==
    /\ fnInput = <<>>
    /\ fnResult = Pending
    /\ trees = <<>>
    /\ tlast = TreeIdle
    /\ mds = <<>>
    /\ mlast = MotionIdle
    /\ hp = HierIdle
    /\ \E text \in BvhTexts : rt = [RoundTripIdle EXCEPT !.phase = "text", !.text = text]
    /\ kin = KinIdle

RtLoad ==
    /\ rt.phase = "text"
    /\ rt' = [rt EXCEPT !.phase = "loaded", !.first = parse_bvh_content(rt.text)]
    /\ UNCHANGED <<fnInput, fnResult, trees, tlast, mds, mlast, hp, kin>>

\* save with default layouts
RtSave ==
    /\ rt.phase = "loaded" /\ rt.first.err = "ok"
    /\ \E written \in save_bvh(rt.first.md, <<>>) :
           rt' = [rt EXCEPT !.phase = "saved", !.saved = written]
    /\ UNCHANGED <<fnInput, fnResult, trees, tlast, mds, mlast, hp, kin>>

RtReload ==
    /\ rt.phase = "saved" /\ rt.saved.err = "ok"
    /\ rt' = [rt EXCEPT !.phase = "reloaded", !.second = parse_bvh_content(rt.saved.lines)]
    /\ UNCHANGED <<fnInput, fnResult, trees, tlast, mds, mlast, hp, kin>>

NextRoundTrip == RtLoad \/ RtSave \/ RtReload

SpecRoundTrip == InitRoundTrip /\ [][NextRoundTrip]_vars

\* ------------------------------------------------------ round trip claims

FirstLoaded == rt.phase # "text" /\ rt.first.err = "ok"

SaveDone == rt.phase \in {"saved", "reloaded"}

\* every array of the first load is there again with equal rows, and the
\* frame count is the same
SameArrays(a, b, RowsAgree(_, _)) ==
    \A i \in DOMAIN a :
        /\ \E j \in DOMAIN b : b[j].name = a[i].name
        /\ MapGet(b, a[i].name).shape = a[i].arr.shape
        /\ \A f \in DOMAIN a[i].arr.data :
              RowsAgree(a[i].arr.data[f], MapGet(b, a[i].name).data[f])

EqualRows(x, y) == x = y

SameRotationRows(x, y) == y \in {x, QuatNeg(x)}

\* C1 as stated: the text loads, the result is saved, the saved text loads,
\* and every position and rotation array of the first load comes back equal,
\* with the same frame count.
C1_Original ==
    rt.phase # "text" =>
        /\ rt.first.err = "ok"
        /\ SaveDone => rt.saved.err = "ok"
        /\ rt.phase = "reloaded" =>
              /\ rt.second.err = "ok"
              /\ rt.second.md.frame_count = rt.first.md.frame_count
              /\ SameArrays(rt.first.md.positions, rt.second.md.positions, EqualRows)
              /\ SameArrays(rt.first.md.rotations, rt.second.md.rotations, EqualRows)

\* the arrays the default layouts write and read back: position and rotation
\* for the root, rotation alone for every other node that has a child or a
\* sibling, nothing for a childless node without siblings
DefaultShaped(md) ==
    \A i \in DOMAIN md.kinematic_tree :
        LET node == md.kinematic_tree[i] IN
        IF is_root(node)
        THEN has_positions(md, node.name) /\ has_rotations(md, node.name)
        ELSE /\ ~has_positions(md, node.name)
             /\ has_rotations(md, node.name) <=>
                   \/ get_children(md.kinematic_tree, node.name) # <<>>
                   \/ has_siblings(md.kinematic_tree, node.name)

\* C1: when the first load gives default-shaped arrays, the save succeeds,
\* the saved text loads, the frame count is the same, the position arrays
\* come back equal and each rotation row comes back as the same quaternion
\* or its negative.
C1_RoundTrip ==
    FirstLoaded /\ DefaultShaped(rt.first.md) =>
        /\ SaveDone => rt.saved.err = "ok"
        /\ rt.phase = "reloaded" =>
              /\ rt.second.err = "ok"
              /\ rt.second.md.frame_count = rt.first.md.frame_count
              /\ SameArrays(rt.first.md.positions, rt.second.md.positions, EqualRows)
              /\ SameArrays(rt.first.md.rotations, rt.second.md.rotations, SameRotationRows)

\* a round trip of a root and two joints, one of them a leaf written as a
\* JOINT with a nested End Site, in which a quaternion came back negated
C1_Witness ==
    /\ rt.phase = "reloaded" /\ rt.second.err = "ok"
    /\ DefaultShaped(rt.first.md)
    /\ Len(rt.first.md.rotations) = 3
    /\ Len(rt.second.md.kinematic_tree) > Len(rt.first.md.kinematic_tree)
    /\ ~SameArrays(rt.first.md.rotations, rt.second.md.rotations, EqualRows)

\* ------------------------------------------------------- loading a text

\* texts to load: well-formed texts, a hierarchy section without any node,
\* a second ROOT block after the first, and every text that differs from
\* one of these in one line (replaced, inserted or deleted)
Zero == Dec(0, 0)

RotationFirst == RotationZXY \o PositionXYZ

Interleaved ==
    <<"Xposition", "Zrotation", "Yposition", "Xrotation", "Zposition", "Yrotation">>

LoadHierarchies ==
    {h \in Hierarchies :
        /\ h.channels[1] \in {PositionXYZ \o RotationZXY, RotationFirst}
        /\ \A i \in 2..Len(h.channels) : h.channels[i] \in {RotationZXY, <<>>}}

NoNodes == [lines |-> <<>>, channels |-> <<>>]

SecondRoot(h, name) ==
    [lines |-> h.lines \o Block("ROOT", name, <<>>, <<>>), channels |-> h.channels]

\* a root whose End Site block has a CHANNELS line
EndSiteWithChannels ==
    [lines |-> Block("ROOT", <<"r">>, PositionXYZ \o RotationZXY,
                     Block("End", <<"Site">>, RotationZXY, <<>>)),
     channels |-> <<PositionXYZ \o RotationZXY, RotationZXY>>]

BaseTexts ==
    {TextOf(h, 1, MaxRows) : h \in LoadHierarchies}
    \cup {TextOf(NoNodes, 1, 0)}
    \cup {TextOf(EndSiteWithChannels, 1, MaxRows)}
    \cup {TextOf(SecondRoot(h, <<n>>), 1, 1) :
             h \in {g \in LoadHierarchies : Len(g.lines) <= 10}, n \in {"r", "b"}}

EditLines ==
    {Line("JOINTS", <<"a">>, <<>>, <<>>),
     Line("JOINT", None, <<>>, <<>>),
     Line("ROOT", <<"r">>, <<>>, <<>>), Line("ROOT", <<"b">>, <<>>, <<>>),
     Line("OFFSET", None, <<>>, <<Dec(1, 0), Zero>>),
     Line("OFFSET", None, <<>>, <<Dec(1, 0), NotANumber, Zero>>),
     Line("CHANNELS", None, <<"Xposition", "Yposition">>, <<Dec(3, 0)>>),
     Line("CHANNELS", None, RotationZXY, <<Dec(2, 0)>>),
     Line("CHANNELS", None, <<"Zrotation", "Wrotation", "Yrotation">>, <<Dec(3, 0)>>),
     Line("CHANNELS", None, Interleaved, <<Dec(6, 0)>>),
     Line("Frames:", None, <<>>, <<Dec(1, 0)>>),
     Line(RowTag, None, <<>>, <<Zero, Zero, Zero, Zero, Zero, Zero>>),
     Line(RowTag, None, <<>>, <<Zero, Zero, NotANumber, Zero, Zero, Zero>>),
     Line(RowTag, None, <<>>, [j \in 1..9 |-> IF j = 2 THEN Dec(9, 1) ELSE Zero])}

ReplaceAt(s, i, l) == [s EXCEPT ![i] = l]

InsertAt(s, i, l) == SubSeq(s, 1, i - 1) \o <<l>> \o SubSeq(s, i, Len(s))

DeleteAt(s, i) == SubSeq(s, 1, i - 1) \o SubSeq(s, i + 1, Len(s))

Edited(text) ==
    {text}
    \cup {ReplaceAt(text, i, l) : i \in DOMAIN text, l \in EditLines}
    \cup {InsertAt(text, i, l) : i \in 1..(Len(text) + 1), l \in EditLines}
    \cup {DeleteAt(text, i) : i \in DOMAIN text}

LoadTexts == UNION {Edited(text) : text \in BaseTexts}

InitLoad ==
    /\ fnInput = <<>>
    /\ fnResult = Pending
    /\ trees = <<>>
    /\ tlast = TreeIdle
    /\ mds = <<>>
    /\ mlast = MotionIdle
    /\ hp = HierIdle
    /\ \E text \in LoadTexts : rt = [RoundTripIdle EXCEPT !.phase = "text", !.text = text]
    /\ kin = KinIdle

NextLoad == RtLoad

SpecLoad == InitLoad /\ [][NextLoad]_vars

\* ------------------------------------------------------------ load claims

LoadRan == rt.phase = "loaded"

\* the lines of the text before its MOTION line, and those after it
HierarchyLines == split_into_sections(rt.text).hierarchy_lines

MotionLines == split_into_sections(rt.text).motion_lines

HasMotionLine == split_into_sections(rt.text).err = "ok"

KnownHierarchyKeywords ==
    {"HIERARCHY", "ROOT", "JOINT", "End", "OFFSET", "CHANNELS", "{", "}"}

\* a hierarchy line with an unknown keyword, a node line without a name, an
\* OFFSET without exactly 3 numbers or with a token that is no number
MalformedHierarchyLine(line) ==
    \/ line.kw \notin KnownHierarchyKeywords
    \/ line.kw \in {"ROOT", "JOINT", "End"} /\ line.name = None
    \/ line.kw = "OFFSET" /\ (Len(line.nums) # 3 \/ ~AllNumeric(line.nums))

\* a data row with a token that is no number
MalformedRow(i) == i > 3 /\ ~AllNumeric(RowTokens(MotionLines[i]))

HasMalformedLine ==
    \/ \E i \in DOMAIN HierarchyLines : MalformedHierarchyLine(HierarchyLines[i])
    \/ \E i \in DOMAIN MotionLines : MalformedRow(i)

\* C11: a text with a malformed line in its hierarchy or motion section
\* (unknown keyword, node line without a name, OFFSET without exactly 3
\* numbers, non-numeric value) does not load: load raises ParseError, never
\* another kind of error, and never skips the line.
C11_Original ==
    LoadRan /\ HasMotionLine /\ HasMalformedLine => rt.first.err = "ParseError"

RootLines == SelectSeq(HierarchyLines, LAMBDA line : line.kw = "ROOT")

\* C12: a text whose hierarchy section holds a second ROOT line (inside the
\* first ROOT's block or after it, with the same or another name) does not
\* load.
C12_Original ==
    LoadRan /\ HasMotionLine /\ Len(RootLines) >= 2 => rt.first.err # "ok"

NodeLines == SelectSeq(HierarchyLines, LAMBDA line : line.kw \in {"ROOT", "JOINT", "End"})

\* C13: a text whose hierarchy section defines no node before MOTION does
\* not load, whatever its motion section holds.
C13_Original ==
    LoadRan /\ HasMotionLine /\ NodeLines = <<>> => rt.first.err # "ok"

\* a CHANNELS line whose count differs from the number of names after it,
\* or with a name that is none of the six channel tokens
BadChannelsLine(line) ==
    /\ line.kw = "CHANNELS"
    /\ line.nums # <<>> /\ IsInt(line.nums[1])
    /\ \/ Len(line.toks) # parse_int(line.nums[1])
       \/ \E k \in DOMAIN line.toks :
              line.toks[k] \notin PositionChannelNames \cup RotationChannelNames

\* the lines of the hierarchy section before line i are read without error
ReadUpTo(i) == HierFold(HierStart, SubSeq(HierarchyLines, 1, i - 1), 1)

\* C14: when the hierarchy section is read without error up to a CHANNELS
\* line whose declared count differs from the number of names after it, or
\* which holds a name outside the six channel tokens, load raises ParseError
\* and returns nothing: no channel list cut or filled to the count is used.
C14_ChannelsRejected ==
    LoadRan /\ HasMotionLine =>
        \A i \in DOMAIN HierarchyLines :
            BadChannelsLine(HierarchyLines[i]) /\ ReadUpTo(i).err = "ok" =>
                rt.first.err = "ParseError" /\ rt.first.md = NoMD

\* a load that failed on "CHANNELS 3 Xposition Yposition" written inside a
\* node's block, every other line of the text being well formed
C14_Witness ==
    /\ LoadRan /\ HasMotionLine /\ rt.first.err = "ParseError"
    /\ \E i \in DOMAIN HierarchyLines :
          /\ HierarchyLines[i] =
                 Line("CHANNELS", None, <<"Xposition", "Yposition">>, <<Dec(3, 0)>>)
          /\ ReadUpTo(i).err = "ok" /\ ReadUpTo(i).current_node_name # None
          /\ parse_bvh_content(DeleteAt(rt.text, i)).err = "ok"

\* the node current at line i of the hierarchy section
ChannelLineNode(i) == ReadUpTo(i).current_node_name

\* line i is the last CHANNELS line of its node
LastChannelsLine(i) ==
    /\ HierarchyLines[i].kw = "CHANNELS"
    /\ \A j \in (i + 1)..Len(HierarchyLines) :
          HierarchyLines[j].kw = "CHANNELS" => ChannelLineNode(j) # ChannelLineNode(i)

\* the sum of the channel counts of all nodes, as the text declares them
RECURSIVE DeclaredWidthFrom(_)
DeclaredWidthFrom(i) ==
    IF i > Len(HierarchyLines) THEN 0
    ELSE (IF LastChannelsLine(i) THEN Len(HierarchyLines[i].toks) ELSE 0)
         + DeclaredWidthFrom(i + 1)

DeclaredWidth == DeclaredWidthFrom(1)

\* the motion section starts with MOTION, a Frames: line with a count and a
\* Frame Time: line with a number
MotionHeaderRead ==
    /\ Len(MotionLines) >= 3
    /\ MotionLines[2].kw = "Frames:" /\ MotionLines[2].name = None
    /\ MotionLines[2].toks = <<>> /\ Len(MotionLines[2].nums) = 1
    /\ IsInt(MotionLines[2].nums[1])
    /\ MotionLines[3].kw = "Frame" /\ MotionLines[3].name = None
    /\ MotionLines[3].toks = <<"Time:">> /\ Len(MotionLines[3].nums) = 1
    /\ MotionLines[3].nums[1].ok

DataRows == SubSeq(MotionLines, 4, Len(MotionLines))

DeclaredFrames == parse_int(MotionLines[2].nums[1])

RowFits(line) ==
    line.kw = RowTag /\ AllNumeric(line.nums) /\ Len(line.nums) = DeclaredWidth

RowsFit ==
    /\ \A i \in DOMAIN DataRows : RowFits(DataRows[i])
    /\ Len(DataRows) = DeclaredFrames

\* C15: a load succeeds only if every data row has as many values as the
\* sum of all nodes' channel counts and there are as many data rows as the
\* Frames: line declares; when the hierarchy section and the two header
\* lines of the motion section are read without error, a row of another
\* width, another number of rows or a non-numeric token raises ParseError.
C15_RowsChecked ==
    LoadRan /\ HasMotionLine =>
        /\ rt.first.err = "ok" => MotionHeaderRead /\ RowsFit
        /\ /\ parse_hierarchy_section(HierarchyLines).err = "ok"
           /\ MotionHeaderRead /\ ~RowsFit
           => rt.first.err = "ParseError"

\* a load that raised ParseError for a row wider than the declared channels,
\* in a text with as many numeric rows as its Frames: line declares
C15_Witness ==
    /\ LoadRan /\ HasMotionLine /\ rt.first.err = "ParseError"
    /\ parse_hierarchy_section(HierarchyLines).err = "ok" /\ MotionHeaderRead
    /\ Len(DataRows) = DeclaredFrames
    /\ \A i \in DOMAIN DataRows : DataRows[i].kw = RowTag /\ AllNumeric(DataRows[i].nums)
    /\ \E i \in DOMAIN DataRows : Len(DataRows[i].nums) > DeclaredWidth
    /\ DeclaredWidth > 0

\* the node's slice of data row f: the values at the places of its CHANNELS
\* line among all declared channels
RowSlice(i, f) ==
    LET nc == parse_hierarchy_section(HierarchyLines).node_channels
        offset == SliceOffset(nc, IndexOfName(nc, ChannelLineNode(i)))
        row == DataRows[f].nums
    IN  [k \in DOMAIN HierarchyLines[i].toks |-> parse_float(row[offset + k])]

\* the k-th value of the slice read as the k-th channel of the line as written
AsDeclared(i, f) == parse_channel_values(HierarchyLines[i].toks, RowSlice(i, f))

\* C20: in a loaded text, for every node and frame, the k-th value of the
\* node's slice of the row is taken as the k-th channel of the node's
\* CHANNELS line as written: position values go to the matching axis and the
\* rotation is composed in the declared axis order, also when rotation
\* channels are declared before or between position channels.
C20_Original ==
    LoadRan /\ rt.first.err = "ok" =>
        \A i \in DOMAIN HierarchyLines : LastChannelsLine(i) =>
            \A f \in DOMAIN DataRows :
                LET node == ChannelLineNode(i)
                    channels == HierarchyLines[i].toks
                IN  /\ filter_position_channels(channels) # <<>> =>
                          MapGet(rt.first.md.positions, node).data[f] = AsDeclared(i, f).position
                    /\ filter_rotation_channels(channels) # <<>> =>
                          MapGet(rt.first.md.rotations, node).data[f] = AsDeclared(i, f).rotation

\* ------------------------------------------- saving with explicit layouts

Override(name, layout) == <<[name |-> <<name>>, layout |-> layout]>>

\* the channel_layouts argument: none, or explicit layouts for the root
\* (among them one with a single position channel), for joint a, or for both
LayoutChoices ==
    {<<>>,
     Override("r", from_rotation_order(DefaultRotationOrder, FALSE)),
     Override("r", from_rotation_order(<<"X", "Y", "Z">>, TRUE)),
     Override("r", from_bvh_channels(PositionXYZ)),
     Override("r", from_bvh_channels(<<"Xposition">> \o RotationZXY)),
     Override("r", NoLayout),
     Override("a", from_rotation_order(DefaultRotationOrder, TRUE)),
     Override("a", NoLayout),
     Override("r", NoLayout) \o Override("a", NoLayout)}

SaveTexts == {TextOf(h, p, 1) : h \in Hierarchies, p \in 1..2}

InitSave ==
    /\ fnInput = <<>>
    /\ fnResult = Pending
    /\ trees = <<>>
    /\ tlast = TreeIdle
    /\ mds = <<>>
    /\ mlast = MotionIdle
    /\ hp = HierIdle
    /\ \E text \in SaveTexts : rt = [RoundTripIdle EXCEPT !.phase = "text", !.text = text]
    /\ kin = KinIdle

\* save_bvh(motion_data, filename, channel_layouts)
RtSaveWith ==
    /\ rt.phase = "loaded" /\ rt.first.err = "ok"
    /\ \E layouts \in LayoutChoices :
          \E written \in save_bvh(rt.first.md, layouts) :
              rt' = [rt EXCEPT !.phase = "saved", !.layouts = layouts, !.saved = written]
    /\ UNCHANGED <<fnInput, fnResult, trees, tlast, mds, mlast, hp, kin>>

NextSave == RtLoad \/ RtSaveWith

SpecSave == InitSave /\ [][NextSave]_vars

\* ------------------------------------------------------------ save claims

SaveRan == rt.phase = "saved"

\* the nodes written with a CHANNELS line of their own: the root, every node
\* with children, and every childless node beside a sibling
Emitted(tree, name) ==
    \/ is_root(DictGet(tree, name))
    \/ get_children(tree, name) # <<>>
    \/ has_siblings(tree, name)

HasOverride(layouts, name) == \E i \in DOMAIN layouts : layouts[i].name = name

\* the layout of a node: the explicit one, or positions and ZXY rotations for
\* the root, ZXY rotations for any other node
LayoutFor(tree, layouts, name) ==
    IF HasOverride(layouts, name)
    THEN layouts[CHOOSE i \in DOMAIN layouts : layouts[i].name = name].layout
    ELSE [position_channels |-> IF is_root(DictGet(tree, name)) THEN PositionXYZ ELSE <<>>,
          rotation_channels |-> RotationZXY]

LacksData(md, layouts, name) ==
    LET layout == LayoutFor(md.kinematic_tree, layouts, name) IN
    \/ layout.position_channels # <<>> /\ ~has_positions(md, name)
    \/ layout.rotation_channels # <<>> /\ ~has_rotations(md, name)

EmittedNames(md) ==
    {md.kinematic_tree[i].name : i \in {j \in DOMAIN md.kinematic_tree :
                                          Emitted(md.kinematic_tree, md.kinematic_tree[j].name)}}

\* C16: save raises ValueError and writes nothing when a node emitted with
\* channels has a layout, explicit or default, that declares position or
\* rotation channels for which the MotionData holds no array for the node,
\* and when no emitted node has any channel to write.
C16_SaveRejected ==
    SaveRan =>
        LET md == rt.first.md IN
        \/ \E n \in EmittedNames(md) : LacksData(md, rt.layouts, n)
        \/ \A n \in EmittedNames(md) :
               layout_channels(LayoutFor(md.kinematic_tree, rt.layouts, n)) = <<>>
        => rt.saved.err = "ValueError" /\ rt.saved.lines = <<>>

\* a save rejected because of an explicit layout alone: joint a is given
\* position channels it has no array for, and the same data is saved with
\* default layouts
C16_Witness ==
    /\ SaveRan /\ rt.saved.err = "ValueError"
    /\ rt.layouts = Override("a", from_rotation_order(DefaultRotationOrder, TRUE))
    /\ <<"a">> \in EmittedNames(rt.first.md)
    /\ \A n \in EmittedNames(rt.first.md) : ~LacksData(rt.first.md, <<>>, n)

\* --------------------------------------- leaves beside siblings, reloaded

\* a non-root node without children that has a sibling
SiblingLeaf(tree, name) ==
    /\ ~is_root(DictGet(tree, name))
    /\ \A i \in DOMAIN tree : tree[i].parent_name # name
    /\ \E i \in DOMAIN tree :
          tree[i].name # name /\ tree[i].parent_name = DictGet(tree, name).parent_name

SiblingLeaves(md) ==
    {md.kinematic_tree[i].name :
        i \in {j \in DOMAIN md.kinematic_tree :
                   SiblingLeaf(md.kinematic_tree, md.kinematic_tree[j].name)}}

QuatInv(q) == <<0 - q[1], 0 - q[2], 0 - q[3], q[4]>>

QuatNorm2(q) == q[1] * q[1] + q[2] * q[2] + q[3] * q[3] + q[4] * q[4]

\* Rotation.apply: the rotation matrix of q times v; the matrix of an integer
\* quaternion of squared norm n has entries that are multiples of n
RotApply(q, v) ==
    LET x == q[1]
        y == q[2]
        z == q[3]
        w == q[4]
        n == QuatNorm2(q)
    IN  <<((w * w + x * x - y * y - z * z) * v[1] + 2 * (x * y - w * z) * v[2]
              + 2 * (x * z + w * y) * v[3]) \div n,
          (2 * (x * y + w * z) * v[1] + (w * w - x * x + y * y - z * z) * v[2]
              + 2 * (y * z - w * x) * v[3]) \div n,
          (2 * (x * z - w * y) * v[1] + 2 * (y * z + w * x) * v[2]
              + (w * w - x * x - y * y + z * z) * v[3]) \div n>>

VecAdd(u, v) == [i \in 1..3 |-> u[i] + v[i]]

VecSub(u, v) == [i \in 1..3 |-> u[i] - v[i]]

VecScale(k, v) == [i \in 1..3 |-> k * v[i]]

\* one quaternion for each of the 24 rotations that quarter turns generate
RotationGroup ==
    {q \in [1..4 -> {-1, 0, 1}] :
        /\ QuatNorm2(q) \in {1, 2, 4}
        /\ \E i \in 1..4 : q[i] = 1 /\ \A j \in (i + 1)..4 : q[j] = 0}

\* a dict of arrays (name, arr items) after d.update(other)
RECURSIVE MapUpdate(_, _)
MapUpdate(d, other) ==
    IF other = <<>> THEN d
    ELSE LET item == Head(other)
             set == IF \E i \in DOMAIN d : d[i].name = item.name
                    THEN [i \in DOMAIN d |-> IF d[i].name = item.name THEN item ELSE d[i]]
                    ELSE Append(d, item)
         IN  MapUpdate(set, Tail(other))

\* get_positions_from_rotations; parent_position and accum_rot have one row
\* per frame, the result is a dict of (frames, 3) row lists
RECURSIVE get_positions_from_rotations(_, _, _, _, _)
RECURSIVE PositionsOfChildren(_, _, _, _, _, _, _)
PositionsOfChildren(motion_data, parent_position, rotation, scale, children, i, positions) ==
    IF i > Len(children) THEN positions
    ELSE LET child_node == children[i]
             child_position ==
                 [f \in DOMAIN parent_position |->
                     VecAdd(parent_position[f],
                            VecScale(scale, RotApply(rotation[f], child_node.offset)))]
             r == get_positions_from_rotations(motion_data, child_position,
                                               child_node.name, rotation, scale)
         IN  PositionsOfChildren(motion_data, parent_position, rotation, scale, children,
                 i + 1, MapUpdate(MapUpdate(positions, <<Entry(child_node.name, child_position)>>), r))

\* get_positions_from_rotations with the local rotation composed on the left
PositionsLeftComposed(motion_data, parent_position, current_node_name, accum_rot, scale) ==
    IF ~has_rotations(motion_data, current_node_name) THEN <<>>
    ELSE LET rot_np == MapGet(motion_data.rotations, current_node_name).data
             rotation == [f \in DOMAIN rot_np |-> QuatMul(rot_np[f], accum_rot[f])]
             children == get_children(motion_data.kinematic_tree, current_node_name)
         IN  PositionsOfChildren(motion_data, parent_position, rotation, scale, children, 1,
                                 <<Entry(current_node_name, parent_position)>>)

\* get_positions_from_rotations going on through a node without rotation
\* as if its rotation were the identity
PositionsThroughRotationless(motion_data, parent_position, current_node_name, accum_rot, scale) ==
    LET rot_np == IF has_rotations(motion_data, current_node_name)
                  THEN MapGet(motion_data.rotations, current_node_name).data
                  ELSE [f \in DOMAIN accum_rot |-> QuatIdentity]
        rotation == [f \in DOMAIN rot_np |-> QuatMul(accum_rot[f], rot_np[f])]
        children == get_children(motion_data.kinematic_tree, current_node_name)
    IN  PositionsOfChildren(motion_data, parent_position, rotation, scale, children, 1,
                            <<Entry(current_node_name, parent_position)>>)

get_positions_from_rotations(motion_data, parent_position, current_node_name, accum_rot, scale) ==
    IF ~has_rotations(motion_data, current_node_name) THEN <<>>
    ELSE LET rot_np == MapGet(motion_data.rotations, current_node_name).data
             rotation == [f \in DOMAIN rot_np |-> QuatMul(accum_rot[f], rot_np[f])]
             children == get_children(motion_data.kinematic_tree, current_node_name)
         IN  PositionsOfChildren(motion_data, parent_position, rotation, scale, children, 1,
                                 <<Entry(current_node_name, parent_position)>>)

\* two vectors that normalise to the same unit vector; the ratio of their
\* lengths is a ratio of whole numbers up to MaxScale
SameDirection(u, v) ==
    \E k \in 1..MaxScale, l \in 1..MaxScale : VecScale(k, u) = VecScale(l, v)

\* align_vectors with the roles of the two vector lists exchanged
AlignVectorsSwapped(to_vecs, from_vecs) ==
    {q \in RotationGroup :
        \A i \in DOMAIN from_vecs : SameDirection(RotApply(q, to_vecs[i]), from_vecs[i])}

\* R.align_vectors(to_vecs, from_vecs)[0] for vectors that a rotation
\* aligns exactly: a rotation turning every from vector onto the direction
\* of its to vector.  When several do (one pair, or collinear pairs), which
\* of them comes out rests on the solver.
align_vectors(to_vecs, from_vecs) ==
    {q \in RotationGroup :
        \A i \in DOMAIN from_vecs : SameDirection(RotApply(q, from_vecs[i]), to_vecs[i])}

\* get_align_rotations: one rotation per frame
get_align_rotations(local_offsets, initial_offset) ==
    {rotations \in [DOMAIN local_offsets -> RotationGroup] :
        \A f \in DOMAIN local_offsets :
            rotations[f] \in align_vectors(local_offsets[f], initial_offset)}

\* rotations * accum_rot, the inverse left out
NextAccumNoInverse(rotations, accum_rot) ==
    [f \in DOMAIN rotations |-> QuatMul(rotations[f], accum_rot[f])]

\* rotations.inv() * accum_rot
NextAccum(rotations, accum_rot) ==
    [f \in DOMAIN rotations |-> QuatMul(QuatInv(rotations[f]), accum_rot[f])]

IdentityRows(motion_data) == [f \in 1..motion_data.frame_count |-> QuatIdentity]

\* get_rotations_from_positions: the dicts of per-frame rotations it may
\* return.  Node names are distinct, so result.update(r) appends.
RECURSIVE get_rotations_from_positions(_, _, _)
RECURSIVE RotationsOfChildren(_, _, _, _, _)
RotationsOfChildren(motion_data, children, i, accum_rot, results) ==
    IF i > Len(children) THEN results
    ELSE RotationsOfChildren(motion_data, children, i + 1, accum_rot,
             {MapUpdate(result, r) :
                 result \in results,
                 r \in get_rotations_from_positions(motion_data, children[i].name, accum_rot)})

\* get_rotations_from_positions going on into an only child of zero offset
RotationsPastEndEffector(motion_data, current_node, accum_rot) ==
    LET children == get_children(motion_data.kinematic_tree, current_node)
        here == MapGet(motion_data.positions, current_node).data
        actual_offsets ==
            [f \in DOMAIN here |->
                [c \in DOMAIN children |->
                    VecSub(MapGet(motion_data.positions, children[c].name).data[f], here[f])]]
        initial_offsets == [c \in DOMAIN children |-> children[c].offset]
        local_offsets ==
            [f \in DOMAIN here |->
                [c \in DOMAIN children |-> RotApply(accum_rot[f], actual_offsets[f][c])]]
    IN  IF Len(children) = 1 /\ children[1].offset = ZeroVec
        THEN RotationsOfChildren(motion_data, children, 1, accum_rot,
                                 {<<Entry(current_node, IdentityRows(motion_data))>>})
        ELSE IF Len(children) >= 1
        THEN UNION {RotationsOfChildren(motion_data, children, 1,
                                        NextAccum(rotations, accum_rot),
                                        {<<Entry(current_node, rotations)>>}) :
                       rotations \in get_align_rotations(local_offsets, initial_offsets)}
        ELSE {<<Entry(current_node, IdentityRows(motion_data))>>}

get_rotations_from_positions(motion_data, current_node, accum_rot) ==
    LET children == get_children(motion_data.kinematic_tree, current_node)
        here == MapGet(motion_data.positions, current_node).data
        actual_offsets ==
            [f \in DOMAIN here |->
                [c \in DOMAIN children |->
                    VecSub(MapGet(motion_data.positions, children[c].name).data[f], here[f])]]
        initial_offsets == [c \in DOMAIN children |-> children[c].offset]
        local_offsets ==
            [f \in DOMAIN here |->
                [c \in DOMAIN children |-> RotApply(accum_rot[f], actual_offsets[f][c])]]
    IN  IF Len(children) = 1 /\ children[1].offset = ZeroVec
        THEN {<<Entry(current_node, IdentityRows(motion_data))>>}
        ELSE IF Len(children) >= 1
        THEN UNION {RotationsOfChildren(motion_data, children, 1,
                                        NextAccum(rotations, accum_rot),
                                        {<<Entry(current_node, rotations)>>}) :
                       rotations \in get_align_rotations(local_offsets, initial_offsets)}
        ELSE {<<Entry(current_node, IdentityRows(motion_data))>>}

\* --------------------------------- rotations to positions and back again

XAxis == <<Micro, 0, 0>>

YAxis == <<0, 2 * Micro, 0>>

ZAxis == <<0, 0, Micro>>

Root == Node(<<"r">>, None, ZeroVec)

\* chains of two and three nodes, a chain whose last offset is zero, a
\* chain whose first offset is zero, two children on different axes, two
\* children on one axis, and two children one of which has a child
KinTrees ==
    {<<Root, Node(<<"a">>, <<"r">>, XAxis)>>,
     <<Root, Node(<<"a">>, <<"r">>, XAxis), Node(<<"b">>, <<"a">>, YAxis)>>,
     <<Root, Node(<<"a">>, <<"r">>, YAxis), Node(<<"b">>, <<"a">>, ZeroVec)>>,
     <<Root, Node(<<"a">>, <<"r">>, ZeroVec), Node(<<"b">>, <<"a">>, XAxis)>>,
     <<Root, Node(<<"a">>, <<"r">>, XAxis), Node(<<"b">>, <<"r">>, YAxis)>>,
     <<Root, Node(<<"a">>, <<"r">>, XAxis), Node(<<"b">>, <<"r">>, VecScale(-1, XAxis))>>,
     <<Root, Node(<<"a">>, <<"r">>, XAxis), Node(<<"b">>, <<"r">>, YAxis),
       Node(<<"c">>, <<"a">>, ZAxis)>>}

\* the identity, quarter turns about X, Y and Z, a half turn about X, a
\* third of a turn about (1,1,1) and a half turn about (0,1,1)
GenRotations ==
    {QuatIdentity, <<1, 0, 0, 1>>, <<0, 1, 0, 1>>, <<0, 0, 1, 1>>, <<1, 0, 0, 0>>,
     <<1, 1, 1, 1>>, <<0, 1, 1, 0>>}

\* a dict of row lists as a mapping of arrays
AsArrays(d, cols) == [i \in DOMAIN d |-> Entry(d[i].name, ArrOf(d[i].arr, cols))]

InitKin ==
    /\ fnInput = <<>>
    /\ fnResult = Pending
    /\ trees = <<>>
    /\ tlast = TreeIdle
    /\ mds = <<>>
    /\ mlast = MotionIdle
    /\ hp = HierIdle
    /\ rt = RoundTripIdle
    /\ \E tree \in KinTrees, scale \in 1..MaxScale :
          \E rows \in [DOMAIN tree -> GenRotations] :
              kin = [KinIdle EXCEPT
                        !.phase = "given", !.tree = tree, !.scale = scale,
                        !.root_position = <<PositionPattern>>,
                        !.rotations = [i \in DOMAIN tree |-> Entry(tree[i].name, <<rows[i]>>)]]

\* get_positions_from_rotations on the given rotations
KinForward ==
    /\ kin.phase = "given"
    /\ LET md == NewMotionData(kin.tree, NoArg, Given(AsArrays(kin.rotations, 4)), NoArg).md
       IN  kin' = [kin EXCEPT !.phase = "positions",
                              !.first = get_positions_from_rotations(
                                            md, kin.root_position, root(kin.tree).name,
                                            IdentityRows(md), kin.scale)]
    /\ UNCHANGED <<fnInput, fnResult, trees, tlast, mds, mlast, hp, rt>>

\* get_rotations_from_positions on the positions computed
KinInfer ==
    /\ kin.phase = "positions"
    /\ LET md == NewMotionData(kin.tree, Given(AsArrays(kin.first, 3)), NoArg, NoArg).md
       IN  \E result \in get_rotations_from_positions(md, root(kin.tree).name, IdentityRows(md)) :
               kin' = [kin EXCEPT !.phase = "rotations", !.inferred = result]
    /\ UNCHANGED <<fnInput, fnResult, trees, tlast, mds, mlast, hp, rt>>

\* get_positions_from_rotations on the inferred rotations
KinAgain ==
    /\ kin.phase = "rotations"
    /\ LET md == NewMotionData(kin.tree, NoArg, Given(AsArrays(kin.inferred, 4)), NoArg).md
       IN  kin' = [kin EXCEPT !.phase = "again",
                              !.second = get_positions_from_rotations(
                                             md, kin.root_position, root(kin.tree).name,
                                             IdentityRows(md), kin.scale)]
    /\ UNCHANGED <<fnInput, fnResult, trees, tlast, mds, mlast, hp, rt>>

NextKin == KinForward \/ KinInfer \/ KinAgain

SpecKin == InitKin /\ [][NextKin]_vars

\* ------------------------------------------------- conversion claims

\* no node other than the root has a zero rest offset
NoZeroOffsets(tree) == \A i \in DOMAIN tree : is_root(tree[i]) \/ tree[i].offset # ZeroVec

\* every node has at most one child
IsChain(tree) == \A i \in DOMAIN tree : Len(get_children(tree, tree[i].name)) <= 1

Items(d) == {d[i] : i \in DOMAIN d}

SameRotation(p, q) == p \in {q, QuatNeg(q)}

\* C18: for a tree without zero rest offsets, rotations are inferred from
\* the positions computed by forward kinematics, and the positions computed
\* again from the inferred rotations are, for every node and frame, the
\* positions computed first.
C18_PositionsReproduced ==
    NoZeroOffsets(kin.tree) =>
        /\ kin.phase = "positions" =>
              LET md == NewMotionData(kin.tree, Given(AsArrays(kin.first, 3)), NoArg, NoArg).md
              IN  get_rotations_from_positions(md, root(kin.tree).name, IdentityRows(md)) # {}
        /\ kin.phase \in {"positions", "rotations", "again"} =>
              {kin.first[i].name : i \in DOMAIN kin.first} = {kin.tree[i].name : i \in DOMAIN kin.tree}
        /\ kin.phase = "again" =>
              Len(kin.second) = Len(kin.first) /\ Items(kin.second) = Items(kin.first)

\* positions reproduced on the tree of four nodes from inferred rotations
\* that differ from the given ones at joint a
C18_Witness ==
    /\ kin.phase = "again" /\ Len(kin.tree) = 4 /\ kin.scale = MaxScale
    /\ Items(kin.second) = Items(kin.first)
    /\ \A i \in DOMAIN kin.rotations : kin.rotations[i].arr[1] # QuatIdentity
    /\ ~SameRotation(MapGet(kin.inferred, <<"a">>)[1], MapGet(kin.rotations, <<"a">>)[1])

\* C19 as stated: on a single-child chain, the rotation inferred for every
\* node is the local rotation the positions were generated from.
C19_Original ==
    kin.phase = "rotations" /\ IsChain(kin.tree) =>
        \A i \in DOMAIN kin.rotations :
            LET name == kin.rotations[i].name IN
            /\ \E j \in DOMAIN kin.inferred : kin.inferred[j].name = name
            /\ \A f \in DOMAIN kin.rotations[i].arr :
                  SameRotation(MapGet(kin.inferred, name)[f], kin.rotations[i].arr[f])

\* the rotation of a node against the root frame: the product of the local
\* rotations from the root down to the node
RECURSIVE GlobalRotation(_, _, _, _)
GlobalRotation(tree, rots, name, f) ==
    IF get_parent(tree, name) = None THEN MapGet(rots, name)[f]
    ELSE QuatMul(GlobalRotation(tree, rots, get_parent(tree, name), f), MapGet(rots, name)[f])

\* C19: on a single-child chain without zero rest offsets, with positions
\* generated by forward kinematics, the rotation inferred for the last node
\* is the identity, and for every other node the inferred rotations from the
\* root down to the node turn the rest offset of its child onto the same
\* vector as the generating rotations do.
C19_ChainDirections ==
    kin.phase = "rotations" /\ IsChain(kin.tree) /\ NoZeroOffsets(kin.tree) =>
        \A i \in DOMAIN kin.tree :
            LET name == kin.tree[i].name
                children == get_children(kin.tree, name)
            IN  /\ \E j \in DOMAIN kin.inferred : kin.inferred[j].name = name
                /\ \A f \in DOMAIN kin.root_position :
                      IF children = <<>>
                      THEN MapGet(kin.inferred, name)[f] = QuatIdentity
                      ELSE RotApply(GlobalRotation(kin.tree, kin.inferred, name, f),
                                    children[1].offset)
                           = RotApply(GlobalRotation(kin.tree, kin.rotations, name, f),
                                      children[1].offset)

\* rotations inferred on the chain of three nodes, none of them the rotation
\* the positions were generated from
C19_Witness ==
    /\ kin.phase = "rotations" /\ IsChain(kin.tree) /\ NoZeroOffsets(kin.tree)
    /\ Len(kin.tree) = 3
    /\ \A i \in DOMAIN kin.rotations :
          ~SameRotation(MapGet(kin.inferred, kin.rotations[i].name)[1], kin.rotations[i].arr[1])

\* ------------------------------------------------- OFFSET lines, line by line

\* the offset the text read so far gives the block of declaration k: the
\* OFFSET written last directly inside that block, or the default of Node
OffsetOfBlock(k) ==
    IF hp.decls[k].has_offset THEN hp.decls[k].own ELSE ZeroVec

\* C21: while the hierarchy section is read, every node carries the offset
\* of the OFFSET line written last directly inside its own block (the block
\* innermost open at that line) and no OFFSET line changes another node,
\* also when the line comes after a child block of the node was closed.
C21_Original ==
    hp.phase = "lines" =>
        /\ Len(hp.st.nodes) = Len(hp.decls)
        /\ \A k \in DOMAIN hp.decls : hp.st.nodes[k].offset = OffsetOfBlock(k)

\* ------------------------------------------------ the hierarchy a save wrote

Saved == rt.phase = "saved" /\ rt.saved.err = "ok"

\* the written lines between the HIERARCHY line and the MOTION line
SavedHierarchy ==
    LET m == CHOOSE i \in DOMAIN rt.saved.lines : rt.saved.lines[i].kw = "MOTION"
    IN  SubSeq(rt.saved.lines, 2, m - 1)

\* The written blocks, read back line by line: one entry per ROOT, JOINT and
\* End Site line with the block open around it (0: none), the OFFSET and
\* CHANNELS lines written directly inside it, and whether every declaration
\* is followed by its "{" and every "}" closes a block.
NoBlocks == [decls |-> <<>>, open |-> <<>>, balanced |-> TRUE, declared |-> FALSE]

WrittenStep(b, line) ==
    IF line.kw \in {"ROOT", "JOINT", "End"} THEN
        [b EXCEPT !.decls = Append(@, [kw |-> line.kw, name |-> line.name,
                                       parent |-> Top(b.open),
                                       offsets |-> <<>>, channels |-> <<>>]),
                  !.open = Append(@, Len(b.decls) + 1),
                  !.balanced = @ /\ ~b.declared,
                  !.declared = TRUE]
    ELSE IF line.kw = "{" THEN
        [b EXCEPT !.balanced = @ /\ b.declared, !.declared = FALSE]
    ELSE IF b.open = <<>> \/ b.declared THEN [b EXCEPT !.balanced = FALSE]
    ELSE IF line.kw = "}" THEN [b EXCEPT !.open = SubSeq(@, 1, Len(@) - 1)]
    ELSE IF line.kw = "OFFSET" THEN
        [b EXCEPT !.decls[Top(b.open)].offsets =
                      Append(@, [i \in DOMAIN line.nums |-> parse_float(line.nums[i])])]
    ELSE IF line.kw = "CHANNELS" THEN
        [b EXCEPT !.decls[Top(b.open)].channels = Append(@, line.toks),
                  !.balanced = @ /\ line.nums = <<format_int(Len(line.toks))>>]
    ELSE [b EXCEPT !.balanced = FALSE]

RECURSIVE WrittenFold(_, _, _)
WrittenFold(b, lines, i) ==
    IF i > Len(lines) THEN b ELSE WrittenFold(WrittenStep(b, lines[i]), lines, i + 1)

WrittenBlocks == WrittenFold(NoBlocks, SavedHierarchy, 1)

\* the blocks written directly inside block k, in text order
BlocksInside(decls, k) ==
    LET Inside(j) == decls[j].parent = k
    IN  SelectSeq([j \in DOMAIN decls |-> j], Inside)

\* the children of a node in the order of the tree's node map
ChildNames(tree, name) ==
    LET IsChild(n) == n.parent_name = name
        ch == SelectSeq(tree, IsChild)
    IN  [i \in DOMAIN ch |-> ch[i].name]

\* a childless node that is not the root and has no sibling
SoleLeaf(tree, name) ==
    /\ ~is_root(DictGet(tree, name))
    /\ ChildNames(tree, name) = <<>>
    /\ ~SiblingLeaf(tree, name)

\* block j is a bare End Site block with one OFFSET line
BareEndSite(decls, j, offset) ==
    /\ decls[j].kw = "End" /\ decls[j].name = <<"Site">>
    /\ decls[j].offsets = <<offset>>
    /\ decls[j].channels = <<>>
    /\ BlocksInside(decls, j) = <<>>

\* block j stands for the node: a bare End Site for a leaf without
\* siblings, a JOINT of the node's name for any other node
StandsFor(tree, decls, j, name) ==
    IF SoleLeaf(tree, name) THEN BareEndSite(decls, j, DictGet(tree, name).offset)
    ELSE decls[j].kw = "JOINT" /\ decls[j].name = name

\* the node has one ROOT or JOINT block of its name, with its OFFSET, the
\* CHANNELS lines given and, inside, one block per child in the children's
\* order, or a zero End Site if the node is a leaf beside siblings
WrittenAs(tree, decls, name, channel_lines) ==
    LET ks == {k \in DOMAIN decls : decls[k].kw \in {"ROOT", "JOINT"} /\ decls[k].name = name}
        k == CHOOSE j \in ks : TRUE
        inside == BlocksInside(decls, k)
        children == ChildNames(tree, name)
    IN  /\ Cardinality(ks) = 1
        /\ decls[k].kw = "ROOT" <=> is_root(DictGet(tree, name))
        /\ is_root(DictGet(tree, name)) <=> decls[k].parent = 0
        /\ decls[k].offsets = <<DictGet(tree, name).offset>>
        /\ decls[k].channels = channel_lines
        /\ IF SiblingLeaf(tree, name)
           THEN Len(inside) = 1 /\ BareEndSite(decls, inside[1], ZeroVec)
           ELSE /\ Len(inside) = Len(children)
                /\ \A i \in DOMAIN children : StandsFor(tree, decls, inside[i], children[i])

\* every node is written once, by its place in the tree, and nothing else is
\* written; ChannelLines(name) are the CHANNELS lines expected in the block
\* of a node that is not a bare End Site
WrittenByStructure(ChannelLines(_)) ==
    LET tree == rt.first.md.kinematic_tree
        b == WrittenBlocks
        leaves == {i \in DOMAIN tree : SiblingLeaf(tree, tree[i].name)}
    IN  /\ b.balanced /\ b.open = <<>> /\ ~b.declared
        /\ Len(b.decls) = Len(tree) + Cardinality(leaves)
        /\ \A i \in DOMAIN tree :
              IF SoleLeaf(tree, tree[i].name)
              THEN \A k \in DOMAIN b.decls : b.decls[k].name # tree[i].name
              ELSE WrittenAs(tree, b.decls, tree[i].name, ChannelLines(tree[i].name))

LayoutChannels(name) ==
    LET layout == LayoutFor(rt.first.md.kinematic_tree, rt.layouts, name)
    IN  layout.position_channels \o layout.rotation_channels

\* C22 as stated: in every file save writes, every node is written exactly
\* once: a node with children, a childless root and a leaf beside siblings
\* as a ROOT or JOINT block with its OFFSET and a CHANNELS line (the leaf
\* with a nested End Site of zero offset), a leaf without siblings as a bare
\* End Site block with its OFFSET only, and the blocks nest as the tree does.
C22_Original ==
    Saved => LET OneLine(name) == <<LayoutChannels(name)>>
             IN  WrittenByStructure(OneLine)

\* C22, amended: as above, but the block of a node whose layout has no
\* channel has no CHANNELS line.
C22_WrittenByStructure ==
    Saved => LET Lines(name) == IF LayoutChannels(name) = <<>> THEN <<>>
                                ELSE <<LayoutChannels(name)>>
             IN  WrittenByStructure(Lines)

\* a written tree with a leaf beside a sibling, a leaf without siblings, a
\* joint with children and a node written without channels
C22_Witness ==
    /\ Saved
    /\ LET tree == rt.first.md.kinematic_tree IN
       /\ \E i \in DOMAIN tree : SiblingLeaf(tree, tree[i].name)
       /\ \E i \in DOMAIN tree : SoleLeaf(tree, tree[i].name)
       /\ \E i \in DOMAIN tree : ~is_root(tree[i]) /\ ChildNames(tree, tree[i].name) # <<>>
       /\ \E i \in DOMAIN tree : ~SoleLeaf(tree, tree[i].name) /\ LayoutChannels(tree[i].name) = <<>>

\* ----------------------------------------------- the motion rows a save wrote

\* the CHANNELS lines of the written hierarchy in text order, each with the
\* name of the block it stands in
RECURSIVE WrittenChannels(_, _, _)
WrittenChannels(lines, i, open) ==
    IF i > Len(lines) THEN <<>>
    ELSE IF lines[i].kw \in {"ROOT", "JOINT", "End"}
    THEN WrittenChannels(lines, i + 1, Append(open, lines[i].name))
    ELSE IF lines[i].kw = "}" /\ open # <<>>
    THEN WrittenChannels(lines, i + 1, SubSeq(open, 1, Len(open) - 1))
    ELSE IF lines[i].kw = "CHANNELS" /\ open # <<>>
    THEN <<[name |-> open[Len(open)], channels |-> lines[i].toks,
            count |-> parse_int(lines[i].nums[1])]>>
         \o WrittenChannels(lines, i + 1, open)
    ELSE WrittenChannels(lines, i + 1, open)

\* the written data rows, as numbers
SavedRows ==
    LET rows == SelectSeq(rt.saved.lines, LAMBDA l : l.kw = RowTag)
    IN  [f \in DOMAIN rows |-> [j \in DOMAIN rows[f].nums |-> parse_float(rows[f].nums[j])]]

RECURSIVE CountsBefore(_, _)
CountsBefore(decl, k) == IF k = 0 THEN 0 ELSE decl[k].count + CountsBefore(decl, k - 1)

\* the columns of row f under the k-th CHANNELS line
ColumnsOf(decl, k, f) ==
    LET from == CountsBefore(decl, k - 1)
        row == SavedRows[f]
    IN  [j \in 1..decl[k].count |-> IF from + j <= Len(row) THEN row[from + j] ELSE 0]

\* the columns hold the node's position on the axes of the position
\* channels declared, then Euler angles of its rotation in the order of the
\* rotation channels declared
ColumnsAsDeclared(md, c, cols, f) ==
    LET pos == filter_position_channels(c.channels)
        rot == filter_rotation_channels(c.channels)
    IN  /\ c.channels = pos \o rot
        /\ c.count = Len(c.channels)
        /\ \A j \in DOMAIN pos :
              cols[j] = MapGet(md.positions, c.name).data[f][AxisIndex(ChannelAxis(pos[j]))]
        /\ rot # <<>> =>
              SubSeq(cols, Len(pos) + 1, Len(cols))
                  \in as_euler([j \in DOMAIN rot |-> ChannelAxis(rot[j])],
                               MapGet(md.rotations, c.name).data[f])

\* C23: in every file save writes, each row is as wide as the CHANNELS
\* counts of the written hierarchy add up to, and holds, node by node in
\* the order of the CHANNELS lines, as many columns as the line declares:
\* the node's position channels first, then its Euler angles in its own
\* rotation order.
C23_Original ==
    Saved =>
        LET decl == WrittenChannels(SavedHierarchy, 1, <<>>)
            md == rt.first.md
        IN  /\ Len(SavedRows) = md.frame_count
            /\ \A f \in DOMAIN SavedRows :
                  /\ Len(SavedRows[f]) = CountsBefore(decl, Len(decl))
                  /\ \A k \in DOMAIN decl :
                        ColumnsAsDeclared(md, decl[k], ColumnsOf(decl, k, f), f)

\* ------------------------------------- forward kinematics from any node

\* the rotation arrays a MotionData may hold for a node: none, or one row
LocalRotations == {<<0, 0, 1, 1>>, <<0, 1, 0, 1>>, <<1, 1, 1, 1>>}

AccumRotations == {QuatIdentity, <<1, 0, 0, 1>>, <<1, 1, 1, 1>>}

\* the entries of a dict picked by a set of indices, in the dict's order
Restrict(d, S) == SelectSeq(d, LAMBDA item : \E i \in S : d[i] = item)

InitFK ==
    /\ fnInput = <<>>
    /\ fnResult = Pending
    /\ trees = <<>>
    /\ tlast = TreeIdle
    /\ mds = <<>>
    /\ mlast = MotionIdle
    /\ hp = HierIdle
    /\ rt = RoundTripIdle
    /\ \E tree \in KinTrees, scale \in 1..MaxScale, accum \in AccumRotations :
          \E start \in DOMAIN tree, with \in SUBSET DOMAIN tree :
              \E rows \in [DOMAIN tree -> LocalRotations] :
                  kin = [KinIdle EXCEPT
                            !.phase = "given", !.tree = tree, !.scale = scale,
                            !.root_position = <<PositionPattern>>,
                            !.start = tree[start].name, !.accum = <<accum>>,
                            !.rotations =
                                Restrict([i \in DOMAIN tree |-> Entry(tree[i].name, <<rows[i]>>)],
                                         with)]

\* the MotionData the positions are computed from
FkData == NewMotionData(kin.tree, NoArg, Given(AsArrays(kin.rotations, 4)), NoArg).md

\* get_positions_from_rotations(motion_data, p, node, A, scale)
FkRun ==
    /\ kin.phase = "given"
    /\ kin' = [kin EXCEPT !.phase = "positions",
                          !.first = get_positions_from_rotations(
                                        FkData, kin.root_position, kin.start,
                                        kin.accum, kin.scale)]
    /\ UNCHANGED <<fnInput, fnResult, trees, tlast, mds, mlast, hp, rt>>

NextFK == FkRun

SpecFK == InitFK /\ [][NextFK]_vars

\* ------------------------------------------- forward kinematics claims

FkRan == kin.phase = "positions"

HasRotation(name) == \E i \in DOMAIN kin.rotations : kin.rotations[i].name = name

HasPosition(name) == \E i \in DOMAIN kin.first : kin.first[i].name = name

ParentOf(name) == DictGet(kin.tree, name).parent_name

ChildrenOf(name) == {kin.tree[i].name : i \in {j \in DOMAIN kin.tree :
                                                 kin.tree[j].parent_name = name}}

\* the nodes the computation passes through: the start node and, below it,
\* every node reached by parent links over nodes that all have a rotation
RECURSIVE Visited(_)
Visited(name) ==
    /\ HasRotation(name)
    /\ \/ name = kin.start
       \/ ParentOf(name) # None /\ Visited(ParentOf(name))

\* the world orientation of a visited node in frame f: the accumulated
\* rotation it was entered with times its local rotation
RECURSIVE WorldOrientation(_, _)
WorldOrientation(name, f) ==
    QuatMul(IF name = kin.start THEN kin.accum[f]
            ELSE WorldOrientation(ParentOf(name), f),
            MapGet(kin.rotations, name)[f])

\* the trees with the nodes of the given tree in another order of the node
\* map, which is the order children are visited in
Reordered(tree) ==
    {[i \in DOMAIN tree |-> tree[p[i]]] :
        p \in {q \in [DOMAIN tree -> DOMAIN tree] : \A i, j \in DOMAIN tree : q[i] = q[j] => i = j}}

\* C24: forward kinematics started at a node that has a rotation, with
\* position p and accumulated rotation A, gives the start node the position
\* p and every child of a visited node the position of its parent plus the
\* parent's world orientation (the accumulated rotation times the local
\* rotation) applied to the child's rest offset, times scale; every node has
\* one entry, and the result is the same for every order of the children.
C24_ForwardKinematics ==
    FkRan /\ HasRotation(kin.start) =>
        /\ \A i, j \in DOMAIN kin.first : kin.first[i].name = kin.first[j].name => i = j
        /\ HasPosition(kin.start)
        /\ MapGet(kin.first, kin.start) = kin.root_position
        /\ \A i \in DOMAIN kin.tree :
              LET name == kin.tree[i].name IN
              Visited(name) =>
                  \A child \in ChildrenOf(name) :
                      /\ HasPosition(child)
                      /\ \A f \in DOMAIN kin.root_position :
                            MapGet(kin.first, child)[f] =
                                VecAdd(MapGet(kin.first, name)[f],
                                       VecScale(kin.scale,
                                                RotApply(WorldOrientation(name, f),
                                                         DictGet(kin.tree, child).offset)))
        /\ \A tree \in Reordered(kin.tree) :
              Items(get_positions_from_rotations(
                        NewMotionData(tree, NoArg, Given(AsArrays(kin.rotations, 4)), NoArg).md,
                        kin.root_position, kin.start, kin.accum, kin.scale))
                  = Items(kin.first)

\* positions computed from joint a of the tree of four nodes, entered with
\* an accumulated rotation other than the identity, down to its child c
C24_Witness ==
    /\ FkRan /\ Len(kin.tree) = 4 /\ kin.start = <<"a">>
    /\ kin.accum # <<QuatIdentity>>
    /\ Visited(<<"a">>) /\ HasPosition(<<"c">>)
    /\ MapGet(kin.first, <<"c">>) # MapGet(kin.first, <<"a">>)

\* node d lies below node n in the tree
RECURSIVE Below(_, _)
Below(d, n) ==
    /\ ParentOf(d) # None
    /\ ParentOf(d) = n \/ Below(ParentOf(d), n)

TreeNames == {kin.tree[i].name : i \in DOMAIN kin.tree}

\* C25 as stated: the map returned by forward kinematics has no entry for a
\* node without a stored rotation and no entry for any descendant of such a
\* node.
C25_Original ==
    FkRan =>
        \A n \in TreeNames :
            ~HasRotation(n) =>
                /\ ~HasPosition(n)
                /\ \A d \in TreeNames : Below(d, n) => ~HasPosition(d)

\* C25, amended: forward kinematics started at a node without a stored
\* rotation returns the empty map; a node without rotation below the start
\* node has an entry exactly when its parent was visited, and propagation
\* stops at it: no node below it has an entry.
C25_StopsAtRotationless ==
    FkRan =>
        /\ ~HasRotation(kin.start) => kin.first = <<>>
        /\ \A n \in TreeNames :
              ~HasRotation(n) /\ Below(n, kin.start) =>
                  /\ HasPosition(n) <=> Visited(ParentOf(n))
                  /\ \A d \in TreeNames : Below(d, n) => ~HasPosition(d)

\* the chain of three nodes computed from its root, joint a without a
\* rotation: a has a position and its child b, which has a rotation, none
C25_Witness ==
    /\ FkRan /\ kin.start = <<"r">> /\ Len(kin.tree) = 3
    /\ ~HasRotation(<<"a">>) /\ HasRotation(<<"b">>) /\ ParentOf(<<"b">>) = <<"a">>
    /\ HasPosition(<<"a">>) /\ ~HasPosition(<<"b">>)

\* ------------------------------------------ where rotation inference stops

Inferred == kin.phase = "rotations"

HasInferred(name) == \E i \in DOMAIN kin.inferred : kin.inferred[i].name = name

\* a node with exactly one child, whose rest offset has length zero
EndEffectorParent(name) ==
    /\ Cardinality(ChildrenOf(name)) = 1
    /\ \A child \in ChildrenOf(name) : DictGet(kin.tree, child).offset = ZeroVec

\* the nodes the inference started at the root comes to: the root, and the
\* children of every node it comes to that is not such a parent
RECURSIVE ComesTo(_)
ComesTo(name) ==
    \/ ParentOf(name) = None
    \/ ComesTo(ParentOf(name)) /\ ~EndEffectorParent(ParentOf(name))

IsIdentityRows(rows) ==
    /\ DOMAIN rows = DOMAIN kin.root_position
    /\ \A f \in DOMAIN rows : rows[f] = QuatIdentity

\* C26: rotation inference gives a node without children the identity
\* rotation; a node with exactly one child whose rest offset has length zero
\* gets the identity rotation in every frame and the recursion stops there:
\* the returned map has an entry for the node and none for its child or any
\* node below.
C26_IdentityAndStop ==
    Inferred =>
        \A n \in TreeNames :
            ComesTo(n) =>
                /\ ChildrenOf(n) = {} =>
                      HasInferred(n) /\ IsIdentityRows(MapGet(kin.inferred, n))
                /\ EndEffectorParent(n) =>
                      /\ HasInferred(n) /\ IsIdentityRows(MapGet(kin.inferred, n))
                      /\ \A d \in TreeNames : Below(d, n) => ~HasInferred(d)

\* inference on the chain whose first offset is zero, from positions
\* generated with rotations other than the identity: the root has the
\* identity and neither a nor its child b has an entry
C26_Witness ==
    /\ Inferred /\ EndEffectorParent(<<"r">>) /\ Len(kin.tree) = 3
    /\ \A i \in DOMAIN kin.rotations : kin.rotations[i].arr[1] # QuatIdentity
    /\ kin.inferred = <<Entry(<<"r">>, <<QuatIdentity>>)>>

\* ------------------------------------- root count before reachability

\* the list has a defect the walks to the root would report: a parent
\* cycle, or a parent that is not in the list
ReachabilityDefect(nodes) == HasCycle(nodes) \/ ~ParentsPresent(nodes)

\* C27 as stated: a non-empty list with zero null-parent nodes is rejected
\* with NoRootError and one with several with NotConnectedError, also when
\* the list has a parent cycle or a missing parent.
C27_Original ==
    (FnDone /\ fnInput # <<>> /\ ReachabilityDefect(fnInput)) =>
        /\ NullParents(fnInput) = {} => fnResult.err = "NoRootError"
        /\ Cardinality(NullParents(fnInput)) > 1 => fnResult.err = "NotConnectedError"

\* C27, amended: the same for lists with pairwise distinct names.
C27_RootCountFirst ==
    (FnDone /\ fnInput # <<>> /\ DistinctNames(fnInput) /\ ReachabilityDefect(fnInput)) =>
        /\ NullParents(fnInput) = {} => fnResult.err = "NoRootError"
        /\ Cardinality(NullParents(fnInput)) > 1 => fnResult.err = "NotConnectedError"

\* two roots and a node that is its own parent: the root count is reported,
\* not the cycle
C27_Witness ==
    /\ FnDone /\ DistinctNames(fnInput) /\ Len(fnInput) = 3
    /\ Cardinality(NullParents(fnInput)) = 2
    /\ \E i \in DOMAIN fnInput : fnInput[i].parent_name = fnInput[i].name
    /\ fnResult.err = "NotConnectedError"

\* ------------------------------------- rotation orders and channel tuples

\* the arguments: each rotation order, and every tuple of up to MaxChannels
\* channel names
ChannelTuples == SeqsUpTo(PositionChannelNames \cup RotationChannelNames, MaxChannels)

OrderArgs ==
    {[kind |-> "order", arg |-> o] : o \in RotationOrders}
    \cup {[kind |-> "channels", arg |-> c] : c \in ChannelTuples}

InitOrder ==
    /\ fnInput \in OrderArgs
    /\ fnResult = Pending
    /\ trees = <<>>
    /\ tlast = TreeIdle
    /\ mds = <<>>
    /\ mlast = MotionIdle
    /\ hp = HierIdle
    /\ rt = RoundTripIdle
    /\ kin = KinIdle

\* rotation_order_from_channels(rotation_channels_from_order(order))
OrderThroughChannels ==
    /\ fnResult = Pending /\ fnInput.kind = "order"
    /\ LET channels == rotation_channels_from_order(fnInput.arg)
           order == rotation_order_from_channels(channels)
       IN  fnResult' = [err |-> order.err, channels |-> channels, order |-> order.val]
    /\ UNCHANGED <<fnInput, trees, tlast, mds, mlast, hp, rt, kin>>

\* rotation_channels_from_order(rotation_order_from_channels(chs)), the
\* second call made when the first returns
ChannelsThroughOrder ==
    /\ fnResult = Pending /\ fnInput.kind = "channels"
    /\ LET order == rotation_order_from_channels(fnInput.arg)
       IN  fnResult' = [err |-> order.err, order |-> order.val,
                        channels |-> IF order.err = "ok"
                                     THEN rotation_channels_from_order(order.val)
                                     ELSE <<>>]
    /\ UNCHANGED <<fnInput, trees, tlast, mds, mlast, hp, rt, kin>>

NextOrder == OrderThroughChannels \/ ChannelsThroughOrder

SpecOrder == InitOrder /\ [][NextOrder]_vars

\* a tuple of the three rotation channels, each once
IsRotationPermutation(chs) ==
    /\ Len(chs) = 3
    /\ \A i \in 1..3 : chs[i] \in RotationChannelNames
    /\ \A i, j \in 1..3 : chs[i] = chs[j] => i = j

\* C28: each of the six rotation orders comes back from its channels, each
\* of the six orderings of the three rotation channels comes back from its
\* order, and every other channel tuple is rejected with ValueError.
C28_Bijection ==
    fnResult # Pending =>
        /\ fnInput.kind = "order" =>
              /\ fnResult.err = "ok" /\ fnResult.order = fnInput.arg
              /\ IsRotationPermutation(fnResult.channels)
        /\ fnInput.kind = "channels" =>
              IF IsRotationPermutation(fnInput.arg)
              THEN /\ fnResult.err = "ok" /\ fnResult.channels = fnInput.arg
                   /\ fnResult.order \in RotationOrders
              ELSE fnResult.err = "ValueError"

\* the ordering Y, Z, X of the rotation channels came back from its order
C28_Witness ==
    /\ fnResult # Pending /\ fnInput.kind = "channels"
    /\ fnInput.arg = <<"Yrotation", "Zrotation", "Xrotation">>
    /\ fnResult.order = <<"Y", "Z", "X">> /\ fnResult.channels = fnInput.arg

\* --------------------------------------------- the arrays a load stores

Loaded == LoadRan /\ rt.first.err = "ok"

\* the CHANNELS lines of a hierarchy section in text order, each with the
\* node whose block it stands in; an End Site is named after the node
\* around it
RECURSIVE ChannelDecls(_, _, _)
ChannelDecls(lines, i, open) ==
    IF i > Len(lines) THEN <<>>
    ELSE IF lines[i].kw \in {"ROOT", "JOINT"}
    THEN ChannelDecls(lines, i + 1, Append(open, lines[i].name))
    ELSE IF lines[i].kw = "End"
    THEN ChannelDecls(lines, i + 1, Append(open, Append(Top(open), "_EndSite")))
    ELSE IF lines[i].kw = "}" /\ open # <<>>
    THEN ChannelDecls(lines, i + 1, SubSeq(open, 1, Len(open) - 1))
    ELSE IF lines[i].kw = "CHANNELS" /\ open # <<>>
    THEN <<[name |-> Top(open), channels |-> lines[i].toks]>>
         \o ChannelDecls(lines, i + 1, open)
    ELSE ChannelDecls(lines, i + 1, open)

\* the channels on the last CHANNELS line of a node's block, none if the
\* block has no such line
DeclaredChannels(name) ==
    LET decls == ChannelDecls(HierarchyLines, 1, <<>>)
        mine == {k \in DOMAIN decls : decls[k].name = name}
    IN  IF mine = {} THEN <<>>
        ELSE decls[CHOOSE k \in mine : \A l \in mine : l <= k].channels

Declares(name, kind) ==
    \E k \in DOMAIN DeclaredChannels(name) : DeclaredChannels(name)[k] \in kind

\* a node declared by an End Site line
IsEndSite(name) == name # None /\ name[Len(name)] = "_EndSite"

\* every array belongs to a node of the tree, each node has a rotation
\* array exactly if it declares a rotation channel and a position array
\* exactly if it declares a position channel, and every array has one row
\* per declared frame
ArraysAsDeclared ==
    LET md == rt.first.md
        arrays == md.positions \o md.rotations
    IN  /\ \A i \in DOMAIN arrays : DictHas(md.kinematic_tree, arrays[i].name)
        /\ \A i \in DOMAIN md.kinematic_tree :
              LET name == md.kinematic_tree[i].name IN
              /\ has_rotations(md, name) <=> Declares(name, RotationChannelNames)
              /\ has_positions(md, name) <=> Declares(name, PositionChannelNames)
        /\ \A i \in DOMAIN arrays :
              /\ arrays[i].arr.shape[1] = DeclaredFrames
              /\ Len(arrays[i].arr.data) = DeclaredFrames
        /\ \A i \in DOMAIN md.positions : md.positions[i].arr.shape[2] = 3
        /\ \A i \in DOMAIN md.rotations : md.rotations[i].arr.shape[2] = 4

\* C29 as stated: after a successful load the arrays are as declared, and
\* End Site nodes have neither a position nor a rotation array.
C29_Original ==
    Loaded =>
        /\ ArraysAsDeclared
        /\ \A i \in DOMAIN rt.first.md.kinematic_tree :
              LET name == rt.first.md.kinematic_tree[i].name IN
              IsEndSite(name) => ~has_rotations(rt.first.md, name)
                                 /\ ~has_positions(rt.first.md, name)

\* C29, amended: after a successful load the arrays are as declared by the
\* last CHANNELS line in each node's block, End Site blocks included; a node
\* without a CHANNELS line has neither array.
C29_ArraysAsDeclared == Loaded => ArraysAsDeclared

\* a loaded text with a root that has both arrays, a joint with a CHANNELS
\* line of rotations that has a rotation array only, and an End Site
\* without CHANNELS line that has none
C29_Witness ==
    /\ Loaded
    /\ LET md == rt.first.md IN
       /\ has_positions(md, <<"r">>) /\ has_rotations(md, <<"r">>)
       /\ DictHas(md.kinematic_tree, <<"a">>)
       /\ has_rotations(md, <<"a">>) /\ ~has_positions(md, <<"a">>)
       /\ DictHas(md.kinematic_tree, <<"a", "_EndSite">>)
       /\ DeclaredChannels(<<"a", "_EndSite">>) = <<>>
       /\ ~has_rotations(md, <<"a", "_EndSite">>)

\* ------------------------------------------------ the open-node stack

\* C30: while the hierarchy section is read, the open-node stack is as deep
\* as the number of ROOT, JOINT and End Site lines read minus the number of
\* "}" lines read, which is never negative, and the section is read with
\* success only if the stack is empty at its end: every block opened was
\* closed.
C30_Original ==
    /\ hp.phase # "idle" /\ hp.st.err = "ok" =>
          Len(hp.st.node_stack) = Len(hp.open)
    /\ HierLoaded => hp.st.node_stack = <<>>

====
